---- MODULE Spec2Model ----
(***************************************************************************)
(* Telemetry pipeline of jwt-pizza-service: the log pipeline of            *)
(* src/src/logger.js (sanitize, log, flush, delivery, requeue) and the     *)
(* metric aggregator and exporter of src/src/metrics.js.                   *)
(*                                                                         *)
(* Node runs every handler to completion on one thread; an async function  *)
(* runs synchronously up to its first pending await.  Each action below is *)
(* therefore one whole handler (or one whole continuation after an await). *)
(***************************************************************************)
EXTENDS Integers, Sequences, FiniteSets, TLC

(***************************************************************************)
(* JavaScript values, as far as JSON.stringify tells them apart.           *)
(*   str, num, bool, null : primitives                                     *)
(*   undef                : undefined (also a function or a symbol)        *)
(*   obj                  : a plain mapping, kv a function on its keys     *)
(*   arr                  : an array, items a sequence                     *)
(*   cyc                  : a reference back to an enclosing object        *)
(* Threw is not a value: it is the outcome "an exception was raised".      *)
(***************************************************************************)
Str(s) == [t |-> "str", s |-> s]
Num(n) == [t |-> "num", n |-> n]
Bool(b) == [t |-> "bool", b |-> b]
Null == [t |-> "null"]
Undef == [t |-> "undef"]
Obj(f) == [t |-> "obj", kv |-> f]
Arr(s) == [t |-> "arr", items |-> s]
Cyc == [t |-> "cyc"]
Threw == [t |-> "throw"]
EmptyKv == [k \in {} |-> Null]
EmptyObj == Obj(EmptyKv)

\* f with key k set to v (an object literal's next property).
Put(f, k, v) == [x \in DOMAIN f \cup {k} |-> IF x = k THEN v ELSE f[x]]

(***************************************************************************)
(* TLC cannot take a string apart, so the characters of each key the model *)
(* uses are written out; toLowerCase and includes are computed on them.    *)
(***************************************************************************)
Chars(k) ==
  CASE k = "level" -> <<"l", "e", "v", "e", "l">>
     [] k = "type" -> <<"t", "y", "p", "e">>
     [] k = "message" -> <<"m", "e", "s", "s", "a", "g", "e">>
     [] k = "timestamp" -> <<"t", "i", "m", "e", "s", "t", "a", "m", "p">>
     [] k = "password" -> <<"p", "a", "s", "s", "w", "o", "r", "d">>
     [] k = "Password" -> <<"P", "a", "s", "s", "w", "o", "r", "d">>
     [] k = "token" -> <<"t", "o", "k", "e", "n">>
     [] k = "userToken" -> <<"u", "s", "e", "r", "T", "o", "k", "e", "n">>
     [] k = "Authorization" -> <<"A", "u", "t", "h", "o", "r", "i", "z", "a", "t", "i", "o", "n">>
     [] k = "hasAuth" -> <<"h", "a", "s", "A", "u", "t", "h">>
     [] k = "jwt" -> <<"j", "w", "t">>
     [] k = "secret" -> <<"s", "e", "c", "r", "e", "t">>
     [] k = "keep" -> <<"k", "e", "e", "p">>
     [] k = "nested" -> <<"n", "e", "s", "t", "e", "d">>
     [] k = "name" -> <<"n", "a", "m", "e">>
     [] k = "items" -> <<"i", "t", "e", "m", "s">>
     [] k = "method" -> <<"m", "e", "t", "h", "o", "d">>
     [] k = "path" -> <<"p", "a", "t", "h">>
     [] k = "statusCode" -> <<"s", "t", "a", "t", "u", "s", "C", "o", "d", "e">>
     [] k = "duration" -> <<"d", "u", "r", "a", "t", "i", "o", "n">>
     [] k = "requestBody" -> <<"r", "e", "q", "u", "e", "s", "t", "B", "o", "d", "y">>
     [] k = "responseBody" -> <<"r", "e", "s", "p", "o", "n", "s", "e", "B", "o", "d", "y">>
     [] k = "ip" -> <<"i", "p">>
     [] k = "query" -> <<"q", "u", "e", "r", "y">>
     [] k = "params" -> <<"p", "a", "r", "a", "m", "s">>
     [] k = "error" -> <<"e", "r", "r", "o", "r">>
     [] k = "errorMessage" -> <<"e", "r", "r", "o", "r", "M", "e", "s", "s", "a", "g", "e">>
     [] k = "errorStack" -> <<"e", "r", "r", "o", "r", "S", "t", "a", "c", "k">>
     [] k = "author" -> <<"a", "u", "t", "h", "o", "r">>
     [] k = "0" -> <<"0">>
     [] k = "1" -> <<"1">>

UpperCase == <<"A", "P", "T", "C", "B", "M", "S">>
LowerCase == <<"a", "p", "t", "c", "b", "m", "s">>

\* The lowercase form of one character.
LowerChar(c) ==
  IF \E j \in DOMAIN UpperCase : UpperCase[j] = c
  THEN LowerCase[CHOOSE j \in DOMAIN UpperCase : UpperCase[j] = c]
  ELSE c

RECURSIVE toLowerCase(_)
\* String.prototype.toLowerCase, one character at a time.
toLowerCase(cs) ==
  IF cs = <<>> THEN <<>> ELSE <<LowerChar(Head(cs))>> \o toLowerCase(Tail(cs))

\* String.prototype.includes: field occurs in cs as a contiguous substring.
includes(cs, field) ==
  \E i \in 0..(Len(cs) - Len(field)) :
     \A j \in 1..Len(field) : cs[i + j] = field[j]

\* logger.js:22
sensitiveFields == <<"password", "token", "auth", "authorization", "jwt", "secret">>

FieldChars(f) ==
  CASE f = "auth" -> <<"a", "u", "t", "h">>
    [] f = "authorization" -> toLowerCase(Chars("Authorization"))
    [] OTHER -> Chars(f)

REDACTED == Str("***REDACTED***")

\* logger.js:28  sensitiveFields.some(field => key.toLowerCase().includes(field))
isSensitiveNoLower(key) ==
  LET name == Chars(key)
  IN  \E i \in DOMAIN sensitiveFields : includes(name, FieldChars(sensitiveFields[i]))
isSensitive(key) ==
  LET name == toLowerCase(Chars(key))
  IN  \E i \in DOMAIN sensitiveFields : includes(name, FieldChars(sensitiveFields[i]))

\* !data
Falsy(v) ==
  \/ v.t \in {"undef", "null"}
  \/ v.t = "num" /\ v.n = 0
  \/ v.t = "str" /\ v.s = ""
  \/ v.t = "bool" /\ ~v.b

\* typeof v === 'object' (null included)
IsObjectType(v) == v.t \in {"obj", "arr", "null"}

RECURSIVE HasCycle(_)
HasCycle(v) ==
  CASE v.t = "cyc" -> TRUE
    [] v.t = "obj" -> \E k \in DOMAIN v.kv : HasCycle(v.kv[k])
    [] v.t = "arr" -> \E i \in DOMAIN v.items : HasCycle(v.items[i])
    [] OTHER -> FALSE

\* What JSON.stringify writes for a value nested in a value without cycles:
\* a property holding undefined is left out, an array slot holding
\* undefined becomes null.
RECURSIVE Serialize(_)
Serialize(v) ==
  CASE v.t = "obj" ->
         Obj([k \in {x \in DOMAIN v.kv : v.kv[x].t # "undef"} |-> Serialize(v.kv[k])])
    [] v.t = "arr" ->
         Arr([i \in DOMAIN v.items |->
                IF v.items[i].t = "undef" THEN Null ELSE Serialize(v.items[i])])
    [] OTHER -> v

\* JSON.parse(JSON.stringify(data)): stringify raises on a cycle; it gives
\* undefined for undefined, which JSON.parse rejects.
JsonCopy(data) ==
  IF HasCycle(data) \/ data.t = "undef" THEN Threw ELSE Serialize(data)

RECURSIVE recursiveSanitizeMasking(_)
\* A sanitizer that masks a sensitive string by putting a star in front of it.
recursiveSanitizeMasking(v) ==
  CASE v.t = "obj" ->
         Obj([k \in DOMAIN v.kv |->
                IF isSensitive(k)
                THEN (IF v.kv[k].t = "str" THEN Str("*" \o v.kv[k].s) ELSE REDACTED)
                ELSE IF IsObjectType(v.kv[k]) THEN recursiveSanitizeMasking(v.kv[k])
                ELSE v.kv[k]])
    [] v.t = "arr" ->
         Arr([i \in DOMAIN v.items |->
                IF IsObjectType(v.items[i]) THEN recursiveSanitizeMasking(v.items[i])
                ELSE v.items[i]])
    [] OTHER -> v
\* A sanitizer that looks at the keys of the top level only.
recursiveSanitizeShallow(v) ==
  CASE v.t = "obj" ->
         Obj([k \in DOMAIN v.kv |-> IF isSensitive(k) THEN REDACTED ELSE v.kv[k]])
    [] OTHER -> v
\* logger.js:24-34
RECURSIVE recursiveSanitize(_)
recursiveSanitize(v) ==
  CASE v.t = "obj" ->
         Obj([k \in DOMAIN v.kv |->
                IF isSensitive(k) THEN REDACTED
                ELSE IF IsObjectType(v.kv[k]) THEN recursiveSanitize(v.kv[k])
                ELSE v.kv[k]])
    [] v.t = "arr" ->
         \* for..in visits the indices "0", "1", ...: no index is sensitive
         Arr([i \in DOMAIN v.items |->
                IF IsObjectType(v.items[i]) THEN recursiveSanitize(v.items[i])
                ELSE v.items[i]])
    [] OTHER -> v

\* logger.js:16-38
sanitize(data) ==
  IF Falsy(data) THEN data
  ELSE LET sanitized == JsonCopy(data)
       IN  IF sanitized = Threw THEN Threw ELSE recursiveSanitize(sanitized)

(***************************************************************************)
(* Values in memory.  A mapping or an array is a cell at an address, and   *)
(* whoever holds it holds a reference to the cell; a write through one     *)
(* reference is seen through every other.  An address is the path of keys  *)
(* that leads to the cell from the root it was created under.  sanitize    *)
(* below is the same function as above, this time on cells: its copy       *)
(* creates cells, and recursiveSanitize writes into cells.                 *)
(***************************************************************************)
\* The keys for..in and the spread give the slots of an array.
IndexKeys == <<"0", "1", "2">>

Ref(a) == [t |-> "ref", a |-> a]
NotReturned == [t |-> "none"]
IsCell(v) == v.t \in {"obj", "arr"}

\* What holds value v when its cell, if it is one, is at address a.
SlotAt(a, v) == IF IsCell(v) THEN Ref(a) ELSE v

\* The cell of the mapping or array v at address a.
Cell(a, v) ==
  IF v.t = "obj"
  THEN [t |-> "obj", kv |-> [k \in DOMAIN v.kv |-> SlotAt(Append(a, k), v.kv[k])]]
  ELSE [t |-> "arr",
        items |-> [i \in DOMAIN v.items |-> SlotAt(Append(a, IndexKeys[i]), v.items[i])]]

RECURSIVE Addresses(_, _)
\* The addresses of the cells of v, created at address a.
Addresses(a, v) ==
  CASE v.t = "obj" ->
         {a} \cup UNION {Addresses(Append(a, k), v.kv[k]) : k \in DOMAIN v.kv}
    [] v.t = "arr" ->
         {a} \cup UNION {Addresses(Append(a, IndexKeys[i]), v.items[i]) : i \in DOMAIN v.items}
    [] OTHER -> {}

RECURSIVE Sub(_, _)
\* The value that the path of keys leads to in v.
Sub(v, path) ==
  IF path = <<>> THEN v
  ELSE IF v.t = "obj" THEN Sub(v.kv[Head(path)], Tail(path))
  ELSE Sub(v.items[CHOOSE i \in DOMAIN v.items : IndexKeys[i] = Head(path)], Tail(path))

\* The cells that creating v under the root makes (an object literal,
\* JSON.parse).
Alloc(root, v) == [a \in Addresses(<<root>>, v) |-> Cell(a, Sub(v, Tail(a)))]

RECURSIVE Deref(_, _)
\* The value one sees through a slot.
Deref(cells, slot) ==
  IF slot.t # "ref" THEN slot
  ELSE IF cells[slot.a].t = "obj"
  THEN Obj([k \in DOMAIN cells[slot.a].kv |-> Deref(cells, cells[slot.a].kv[k])])
  ELSE Arr([i \in DOMAIN cells[slot.a].items |-> Deref(cells, cells[slot.a].items[i])])

RECURSIVE Visited(_, _)
\* logger.js:24-34: the cells recursiveSanitize(obj) is called on and gets
\* past its first line with: obj itself and, key by key, what a key that is
\* not sensitive holds.
Visited(cells, slot) ==
  IF slot.t # "ref" THEN {}
  ELSE IF cells[slot.a].t = "obj"
  THEN {slot.a} \cup UNION {Visited(cells, cells[slot.a].kv[k]) :
                              k \in {x \in DOMAIN cells[slot.a].kv : ~isSensitive(x)}}
  ELSE {slot.a} \cup UNION {Visited(cells, cells[slot.a].items[i]) :
                              i \in DOMAIN cells[slot.a].items}

\* logger.js:28-29  obj[key] = '***REDACTED***', for each sensitive key
Redact(cell) ==
  IF cell.t = "obj"
  THEN [cell EXCEPT !.kv = [k \in DOMAIN @ |-> IF isSensitive(k) THEN REDACTED ELSE @[k]]]
  ELSE cell

\* logger.js:24-34, in place: the memory after recursiveSanitize(slot).  The
\* writes of one visit do not change which cells the others reach.
recursiveSanitizeInPlace(cells, slot) ==
  [a \in DOMAIN cells |-> IF a \in Visited(cells, slot) THEN Redact(cells[a]) ELSE cells[a]]

\* A sanitize that works on the value it was given.
sanitizeInMemoryNoCopy(cells, data) ==
  IF Falsy(data) THEN [cells |-> cells, returned |-> data]
  ELSE [cells |-> recursiveSanitizeInPlace(cells, data), returned |-> data]
\* logger.js:16-38: what sanitize(data) leaves in memory and what it returns.
sanitizeInMemory(cells, data) ==
  IF Falsy(data) THEN [cells |-> cells, returned |-> data]
  ELSE \* JSON.stringify reads, JSON.parse creates
       LET sanitized == JsonCopy(Deref(cells, data))
       IN  IF sanitized = Threw THEN [cells |-> cells, returned |-> Threw]
           ELSE [cells |-> recursiveSanitizeInPlace(
                             cells @@ Alloc("sanitized", sanitized),
                             SlotAt(<<"sanitized">>, sanitized)),
                 returned |-> SlotAt(<<"sanitized">>, sanitized)]

(***************************************************************************)
(* State.                                                                  *)
(***************************************************************************)
VARIABLES
  logConfig,     \* config.logging: is it there, has it a url, has it userId and apiKey
  logBuffer,     \* Logger.logBuffer: records in buffer order
  inflight,      \* flush() calls suspended at their await, in the order they started
  delivered,     \* records of batches the backend accepted, in order of acceptance
  nextId,        \* number of records created so far, plus one
  proc,          \* "running" or "exited"
  logsLeft,      \* log() calls the behaviour may still make (bounds the model)
  metricsConfig, \* config.metrics: is it there, has it a url, has it an apiKey
  counters,      \* the numeric fields of Metrics (totalRequests ... revenue)
  activeUsers,   \* Metrics.activeUsers
  serviceLatencies,  \* Metrics.serviceLatencies
  pizzaLatencies,    \* Metrics.pizzaLatencies
  exports,       \* sendMetricsToGrafana() calls suspended at their await
  reads,         \* the samples each export read into an average, in order (history)
  nextSample,    \* number of latency samples recorded so far, plus one
  tracksLeft,    \* tracking calls the behaviour may still make (bounds the model)
  exportsLeft,   \* export cycles the behaviour may still start (bounds the model)
  exportFailures,\* number of exports whose delivery failed so far (history)
  unrecognized,  \* number of incrementRequests calls with a method that is none
                 \* of GET, POST, PUT, DELETE (history)
  tracked,       \* the identifiers trackActiveUser was given: before the last
                 \* export built its payload, and since (history)
  sanitizeInput, \* a value handed to sanitize
  sanitizeResults,   \* what sanitize returned for it, and then for each of its
                     \* own results in turn
  heap,          \* the memory that holds that value: the cells, the slot the
                 \* caller holds (data) and the slot sanitize(data) returned
  users,         \* the registered users, by id: their roles, and how often their
                 \* profile was updated
  sessions,      \* the tokens issued, by token: whose it is, and is it signed in
  franchises,    \* the franchises, by id: their administrators and stores
  menu,          \* number of menu items added
  response,      \* the request the service answered last, and its answer
  requestsLeft,  \* requests the behaviour may still make (bounds the model)
  requests,      \* the requests that entered the instrumentation, in order of
                 \* entry: what was asked, how far the cycle is, and what it
                 \* added to the counters, the latency list and the log (history)
  last           \* what the last handler did (history)

logVars == <<logConfig, logBuffer, inflight, delivered, nextId, proc, logsLeft>>
metricVars == <<metricsConfig, counters, activeUsers, serviceLatencies, pizzaLatencies,
                exports, reads, nextSample, tracksLeft, exportsLeft, exportFailures,
                unrecognized, tracked>>
sanitizeVars == <<sanitizeInput, sanitizeResults, heap>>
routeVars == <<users, sessions, franchises, menu, response, requestsLeft>>
callVars == <<sanitizeVars, routeVars, requests>>
vars == <<logVars, metricVars, callVars, last>>

\* No value has been handed to sanitize yet but the given one.
InitSanitizer(inputs) ==
  /\ sanitizeInput \in inputs
  /\ sanitizeResults = <<>>
  /\ heap = [cells |-> Alloc("data", sanitizeInput),
             data |-> SlotAt(<<"data">>, sanitizeInput),
             returned |-> NotReturned]

\* What the service has answered before any request.
NoResponse == [endpoint |-> "none", authorization |-> [kind |-> "absent", token |-> 0],
               body |-> "none", user |-> 0, target |-> 0, status |-> 0,
               message |-> "none"]

\* The service with the given users in its database and n requests to come.
InitRoutes(registered, n) ==
  /\ users \in registered
  /\ sessions = << >>
  /\ franchises = << >>
  /\ menu = 0
  /\ response = NoResponse
  /\ requestsLeft = n
  /\ requests = <<>>

\* Neither the sanitizer by itself nor the routes take part.
NoCalls == InitSanitizer({Null}) /\ InitRoutes({<< >>}, 0)

\* The capacity threshold, this.bufferSize of logger.js:6, scaled down from
\* 100: the code only compares the buffer's length with it (logger.js:61).
bufferSize == 2
\* log() calls a behaviour makes after Init.
MaxLogs == 4

LogConfigs ==
  { [logging |-> FALSE, url |-> FALSE, creds |-> FALSE],
    [logging |-> TRUE, url |-> FALSE, creds |-> FALSE],
    [logging |-> TRUE, url |-> FALSE, creds |-> TRUE],
    [logging |-> TRUE, url |-> TRUE, creds |-> FALSE],
    [logging |-> TRUE, url |-> TRUE, creds |-> TRUE] }

\* logger.js:10 and 149: config.logging && config.logging.url
hasLogUrl == logConfig.logging /\ logConfig.url

(***************************************************************************)
(* log(): the record it builds.                                            *)
(***************************************************************************)
\* ...sanitizedDetails: the own enumerable properties of the value.
Spread(v) ==
  CASE v.t = "obj" -> v.kv
    [] v.t = "arr" ->
         [k \in {IndexKeys[i] : i \in DOMAIN v.items} |->
            v.items[CHOOSE i \in DOMAIN v.items : IndexKeys[i] = k]]
    [] OTHER -> EmptyKv

\* f, then the properties of g over it (a later property wins).
Over(f, g) == [k \in DOMAIN f \cup DOMAIN g |-> IF k \in DOMAIN g THEN g[k] ELSE f[k]]

\* logger.js:44-50
logEntry(level, type, message, sanitizedDetails, timestamp) ==
  Obj(Put(Over([level |-> level, type |-> type, message |-> message],
               Spread(sanitizedDetails)),
          "timestamp", timestamp))

Record(id, entry) == [id |-> id, entry |-> entry]

(***************************************************************************)
(* formatForLoki (logger.js:165-189): the batch grouped into streams.      *)
(* streamMap is kept as the list of its entries in insertion order, which  *)
(* is the order Object.values gives for keys that are not array indices    *)
(* (a labelKey starts with a brace).  Two labelKeys are the same string    *)
(* exactly when the labels serialize to the same value.                    *)
(***************************************************************************)
\* config.logging.source || 'jwt-pizza-service'
loggingSource ==
  IF "source" \in DOMAIN logConfig /\ logConfig.source # ""
  THEN logConfig.source
  ELSE "jwt-pizza-service"

\* logger.js:169-173
labelsOf(log) ==
  [level |-> log.entry.kv["level"], type |-> log.entry.kv["type"],
   source |-> Str(loggingSource)]

\* logger.js:175  JSON.stringify(labels)
labelKeyOf(labels) == Serialize(Obj(labels))

\* logger.js:184-185: [timestamp.toString(), JSON.stringify(log)], the
\* timestamp in nanoseconds; id tells which record the line was made from.
valueOf(log) ==
  [timestamp |-> log.entry.kv["timestamp"].n * 1000000,
   line |-> Serialize(log.entry),
   id |-> log.id]

\* A formatter that opens a stream for every record.
streamMapPerRecord(streamMap, log) ==
  Append(streamMap, [labelKey |-> labelKeyOf(labelsOf(log)),
                     stream |-> labelsOf(log), values |-> <<valueOf(log)>>])
\* logger.js:168-186, the body of forEach for one record
streamMapPut(streamMap, log) ==
  LET labels == labelsOf(log)
      labelKey == labelKeyOf(labels)
  IN  IF \E i \in DOMAIN streamMap : streamMap[i].labelKey = labelKey
      THEN LET i == CHOOSE i \in DOMAIN streamMap : streamMap[i].labelKey = labelKey
           IN  [streamMap EXCEPT ![i].values = Append(@, valueOf(log))]
      ELSE Append(streamMap, [labelKey |-> labelKey, stream |-> labels,
                               values |-> <<valueOf(log)>>])

RECURSIVE streamMapOf(_, _)
\* logs.forEach(...) from streamMap on
streamMapOf(streamMap, logs) ==
  IF logs = <<>> THEN streamMap
  ELSE streamMapOf(streamMapPut(streamMap, Head(logs)), Tail(logs))

\* logger.js:165-189
formatForLoki(logs) ==
  LET streamMap == streamMapOf(<<>>, logs)
  IN  [i \in DOMAIN streamMap |->
         [stream |-> streamMap[i].stream, values |-> streamMap[i].values]]

(***************************************************************************)
(* flush(), up to its await.  The result is the buffer it leaves and the   *)
(* delivery it started, if any: a flush with its batch, suspended until    *)
(* fetch settles.  streams is the body of the one request sendToGrafana    *)
(* posts (logger.js:193-197); during is history: the records log()         *)
(* appended since.                                                         *)
(***************************************************************************)
Flight(logsToSend) ==
  [logsToSend |-> logsToSend, streams |-> formatForLoki(logsToSend), during |-> <<>>]

\* The history of the last handler: which one, the flush() calls and the
\* network calls it made, whether it raised, and, for the continuation of
\* a delivery, the flush that settled and how its fetch ended; for a
\* tracking call, its argument; for log(), its level, type and message.
Last(op, flushes, calls, threw) ==
  [op |-> op, flushes |-> flushes, calls |-> calls, threw |-> threw,
   flight |-> Flight(<<>>), outcome |-> "none", arg |-> "none"]

flushKeepsBuffer(buffer) ==
  IF Len(buffer) = 0 \/ ~hasLogUrl
  THEN [logBuffer |-> buffer, started |-> <<>>]
  ELSE [logBuffer |-> buffer, started |-> <<Flight(buffer)>>]
flushNoEmptyCheck(buffer) ==
  IF ~hasLogUrl
  THEN [logBuffer |-> buffer, started |-> <<>>]
  ELSE [logBuffer |-> <<>>, started |-> <<Flight(buffer)>>]
\* A flush that makes one delivery call per record, the oldest first.
flushFirstRecord(buffer) ==
  IF Len(buffer) = 0 THEN [logBuffer |-> buffer, started |-> <<>>]
  ELSE IF ~hasLogUrl THEN [logBuffer |-> buffer, started |-> <<>>]
  ELSE [logBuffer |-> Tail(buffer), started |-> <<Flight(<<Head(buffer)>>)>>]
\* logger.js:147-156
flush(buffer) ==
  IF Len(buffer) = 0 THEN [logBuffer |-> buffer, started |-> <<>>]
  ELSE IF ~hasLogUrl THEN [logBuffer |-> buffer, started |-> <<>>]
  ELSE [logBuffer |-> <<>>, started |-> <<Flight(buffer)>>]

thresholdStrict(buffer) == Len(buffer) > bufferSize
\* logger.js:61
thresholdReached(buffer) == Len(buffer) >= bufferSize

requeueAtTail(logsToSend, buffer) == buffer \o logsToSend
\* A failed delivery that gives its batch up.
unshiftNothing(logsToSend, buffer) == buffer
\* logger.js:160  this.logBuffer.unshift(...logsToSend)
unshift(logsToSend, buffer) == logsToSend \o buffer

\* The records appended since each pending flush started (history).
Noting(flights, rec) ==
  [i \in DOMAIN flights |-> [flights[i] EXCEPT !.during = Append(@, rec)]]

RemoveAt(s, i) == SubSeq(s, 1, i - 1) \o SubSeq(s, i + 1, Len(s))

(***************************************************************************)
(* Logger.log (logger.js:41-64), the whole call: sanitize, build the       *)
(* record, append, and the threshold flush up to its await.                *)
(***************************************************************************)
\* A logging call that raises before it touched the buffer; rest says what
\* becomes of the state that is not the logger's.
RaiseThen(rest) ==
  /\ last' = Last("log", 0, 0, TRUE)
  /\ logsLeft' = logsLeft - 1
  /\ UNCHANGED <<logConfig, logBuffer, inflight, delivered, nextId, proc>>
  /\ rest

Raise == RaiseThen(UNCHANGED <<metricVars, callVars>>)

\* A log() that waits for the delivery of the flush it started.
logAwaitsDelivery(level, type, message, detailsArg) ==
  \E sanitizedDetails \in
       {sanitize(IF detailsArg.t = "undef" THEN EmptyObj ELSE detailsArg)} :
    IF sanitizedDetails = Threw
    THEN Raise
    ELSE \E rec \in {Record(nextId,
                            logEntry(level, type, message, sanitizedDetails, Num(nextId)))} :
         \E r \in {IF thresholdReached(Append(logBuffer, rec))
                   THEN flush(Append(logBuffer, rec))
                   ELSE [logBuffer |-> Append(logBuffer, rec), started |-> <<>>]} :
           /\ logBuffer' = r.logBuffer
           /\ inflight' = Noting(inflight, rec)
           /\ delivered' = delivered \o (IF r.started = <<>> THEN <<>>
                                           ELSE r.started[1].logsToSend)
           /\ nextId' = nextId + 1
           /\ logsLeft' = logsLeft - 1
           /\ last' = [Last("log",
                            IF thresholdReached(Append(logBuffer, rec)) THEN 1 ELSE 0,
                            Len(r.started), FALSE)
                         EXCEPT !.arg = [level |-> level, type |-> type,
                                         message |-> message]]
           /\ UNCHANGED <<logConfig, proc, metricVars, callVars>>

\* A log() that appends and leaves every flush to the timer.
logWithoutThreshold(level, type, message, detailsArg) ==
  \E sanitizedDetails \in
       {sanitize(IF detailsArg.t = "undef" THEN EmptyObj ELSE detailsArg)} :
    IF sanitizedDetails = Threw
    THEN Raise
    ELSE \E rec \in {Record(nextId,
                            logEntry(level, type, message, sanitizedDetails, Num(nextId)))} :
           /\ logBuffer' = Append(logBuffer, rec)
           /\ inflight' = Noting(inflight, rec)
           /\ nextId' = nextId + 1
           /\ logsLeft' = logsLeft - 1
           /\ last' = [Last("log", 0, 0, FALSE)
                         EXCEPT !.arg = [level |-> level, type |-> type,
                                         message |-> message]]
           /\ UNCHANGED <<logConfig, delivered, proc, metricVars, callVars>>

\* (A value is bound with \E over a singleton so that it is computed once.)
logThen(level, type, message, detailsArg, rest) ==
  \E sanitizedDetails \in
       {sanitize(IF detailsArg.t = "undef" THEN EmptyObj ELSE detailsArg)} :  \* details = {}
    IF sanitizedDetails = Threw
    THEN RaiseThen(rest)
    ELSE \E rec \in {Record(nextId,
                            logEntry(level, type, message, sanitizedDetails, Num(nextId)))} :
         \E r \in {IF thresholdReached(Append(logBuffer, rec))
                   THEN flush(Append(logBuffer, rec))
                   ELSE [logBuffer |-> Append(logBuffer, rec), started |-> <<>>]} :
           /\ logBuffer' = r.logBuffer
           /\ inflight' = Noting(inflight, rec) \o r.started
           /\ nextId' = nextId + 1
           /\ logsLeft' = logsLeft - 1
           /\ last' = [Last("log",
                            IF thresholdReached(Append(logBuffer, rec)) THEN 1 ELSE 0,
                            Len(r.started), FALSE)
                         EXCEPT !.arg = [level |-> level, type |-> type,
                                         message |-> message]]
           /\ UNCHANGED <<logConfig, delivered, proc>>
           /\ rest

\* log() called where nothing else happens.
log(level, type, message, detailsArg) ==
  logThen(level, type, message, detailsArg, UNCHANGED <<metricVars, callVars>>)

CanLog == proc = "running" /\ logsLeft > 0

\* A call site that calls logger.log directly.
BasicDetails == {EmptyObj, Cyc}
LogCall ==
  /\ CanLog
  /\ \E d \in BasicDetails : log(Str("info"), Str("http"), Str("m"), d)

\* setInterval(() => this.flush(), this.flushInterval): the timer exists
\* only when the url was configured at construction (logger.js:9-12).
TimerFlush ==
  /\ proc = "running"
  /\ hasLogUrl
  /\ \E r \in {flush(logBuffer)} :
         /\ logBuffer' = r.logBuffer
         /\ inflight' = inflight \o r.started
         /\ last' = Last("timer", 1, Len(r.started), FALSE)
  /\ UNCHANGED <<logConfig, delivered, nextId, proc, logsLeft, metricVars, callVars>>

\* How the fetch of a flush ends: a response with ok, a response without,
\* or a rejected promise.
Outcomes == {"ok", "status", "neterror"}

\* A sendToGrafana that takes every response for a success.
sendToGrafanaThrowsOnReject(outcome) == outcome = "neterror"
\* logger.js:192-207: sendToGrafana raises unless the response is ok.
sendToGrafanaThrows(outcome) == outcome # "ok"

\* flush() resumed after its await (logger.js:156-161).
Deliver(i, outcome) ==
  /\ proc = "running"
  /\ i \in DOMAIN inflight
  /\ inflight' = RemoveAt(inflight, i)
  /\ IF sendToGrafanaThrows(outcome)
     THEN /\ logBuffer' = unshift(inflight[i].logsToSend, logBuffer)
          /\ delivered' = delivered
          /\ last' = [Last("failed", 0, 0, FALSE) EXCEPT !.flight = inflight[i],
                                                       !.outcome = outcome]
     ELSE /\ logBuffer' = logBuffer
          /\ delivered' = delivered \o inflight[i].logsToSend
          /\ last' = [Last("delivered", 0, 0, FALSE) EXCEPT !.flight = inflight[i],
                                                          !.outcome = outcome]
  /\ UNCHANGED <<logConfig, nextId, proc, logsLeft, metricVars, callVars>>

Settle == \E i \in DOMAIN inflight, outcome \in Outcomes : Deliver(i, outcome)

\* A process that terminates with no handler registered.
ExitWithoutFlush ==
  /\ proc = "running"
  /\ last' = Last("exit", 0, 0, FALSE)
  /\ proc' = "exited"
  /\ UNCHANGED <<logConfig, logBuffer, inflight, delivered, nextId, logsLeft, metricVars, callVars>>
\* process.on('exit', ...) (logger.js:213-215): normal termination.
Exit ==
  /\ proc = "running"
  /\ \E r \in {flush(logBuffer)} :
         /\ logBuffer' = r.logBuffer
         /\ inflight' = inflight \o r.started
         /\ last' = Last("exit", 1, Len(r.started), FALSE)
  /\ proc' = "exited"
  /\ UNCHANGED <<logConfig, delivered, nextId, logsLeft, metricVars, callVars>>

\* An interrupt whose two flushes both read the buffer the handler found.
SigintFlushingSame ==
  /\ proc = "running"
  /\ \E r1 \in {flush(logBuffer)} : \E r2 \in {flush(logBuffer)} :
         /\ logBuffer' = r2.logBuffer
         /\ inflight' = inflight \o r1.started \o r2.started
         /\ last' = Last("sigint", 2, Len(r1.started) + Len(r2.started), FALSE)
  /\ proc' = "exited"
  /\ UNCHANGED <<logConfig, delivered, nextId, logsLeft, metricVars, callVars>>
\* process.on('SIGINT', ...) (logger.js:217-220): flush, then process.exit(),
\* which runs the 'exit' handler and so flush once more.
Sigint ==
  /\ proc = "running"
  /\ \E r1 \in {flush(logBuffer)} : \E r2 \in {flush(r1.logBuffer)} :
         /\ logBuffer' = r2.logBuffer
         /\ inflight' = inflight \o r1.started \o r2.started
         /\ last' = Last("sigint", 2, Len(r1.started) + Len(r2.started), FALSE)
  /\ proc' = "exited"
  /\ UNCHANGED <<logConfig, delivered, nextId, logsLeft, metricVars, callVars>>

\* The state the Logger constructor leaves (logger.js:4-13); the
\* configuration is one of configs.  n bounds the log() calls.
InitLogger(configs, n) ==
  /\ logConfig \in configs
  /\ logBuffer = <<>>
  /\ inflight = <<>>
  /\ delivered = <<>>
  /\ nextId = 1
  /\ proc = "running"
  /\ logsLeft = n
  /\ last = Last("init", 0, 0, FALSE)

(***************************************************************************)
(* The Number that holds the revenue.  It is an IEEE 754 double; the ones  *)
(* that occur are not negative, below 2^14 and multiples of 2^-56, and     *)
(* such a double is written here as the five base-2^14 digits, lowest      *)
(* first, of its value times 2^56.  A sum is the exact sum rounded to 53   *)
(* significant bits, ties to even.                                         *)
(***************************************************************************)
DigitBits == 14
Radix == 2^DigitBits
Digits == 5
SignificandBits == 53

\* A whole amount, and 0.1 (the double 0x1999999999999A * 2^-56).
Whole(n) == <<0, 0, 0, 0, n>>
Dime == <<6554, 9830, 6553, 1638, 0>>

DigitAt(a, i) == IF i \in DOMAIN a THEN a[i] ELSE 0

RECURSIVE CarryInto(_, _, _)
CarryInto(a, b, i) ==
  IF i = 1 THEN 0 ELSE (a[i - 1] + b[i - 1] + CarryInto(a, b, i - 1)) \div Radix
\* a + b without rounding
exactSum(a, b) == [i \in 1..Digits |-> (a[i] + b[i] + CarryInto(a, b, i)) % Radix]

RECURSIVE BitLength(_)
BitLength(x) == IF x = 0 THEN 0 ELSE 1 + BitLength(x \div 2)
TopDigit(a) ==
  IF \A i \in 1..Digits : a[i] = 0 THEN 0
  ELSE CHOOSE i \in 1..Digits : a[i] # 0 /\ \A j \in (i + 1)..Digits : a[j] = 0
\* the number of significant bits of a
Length(a) ==
  IF TopDigit(a) = 0 THEN 0
  ELSE DigitBits * (TopDigit(a) - 1) + BitLength(a[TopDigit(a)])
\* bit n of a, the lowest being bit 0
BitAt(a, n) == (a[n \div DigitBits + 1] \div 2^(n % DigitBits)) % 2
\* a with its d lowest bits cleared
ClearBelow(a, d) ==
  [i \in 1..Digits |->
     IF i < d \div DigitBits + 1 THEN 0
     ELSE IF i = d \div DigitBits + 1 THEN a[i] - (a[i] % 2^(d % DigitBits))
     ELSE a[i]]
\* 2^d
BitOf(d) == [i \in 1..Digits |-> IF i = d \div DigitBits + 1 THEN 2^(d % DigitBits) ELSE 0]

\* Round to nearest, ties to even, at 53 significant bits.
roundToDouble(a) ==
  LET d == Length(a) - SignificandBits
  IN  IF d <= 0 THEN a
      ELSE IF /\ BitAt(a, d - 1) = 1
              /\ \/ BitAt(a, d) = 1
                 \/ \E n \in 0..(d - 2) : BitAt(a, n) = 1
           THEN exactSum(ClearBelow(a, d), BitOf(d))
           ELSE ClearBelow(a, d)

\* a + b of two Numbers (metrics.js:76)
numberAdd(a, b) == roundToDouble(exactSum(a, b))

RECURSIVE CarryTimes(_, _, _)
CarryTimes(a, m, i) ==
  IF i = 1 THEN 0 ELSE (DigitAt(a, i - 1) * m + CarryTimes(a, m, i - 1)) \div Radix
\* a * m for a small whole m, exactly, one digit longer
times(a, m) ==
  [i \in 1..(Digits + 1) |-> (DigitAt(a, i) * m + CarryTimes(a, m, i)) % Radix]

\* A toFixed(4) that cuts the fifth decimal off.
toFixed4Truncating(a) ==
  LET p == times(a, 10000)
  IN  p[5] + p[6] * Radix
\* a.toFixed(4), in ten-thousandths: the whole n for which n / 10^4 is
\* closest to the exact value of a, the larger one of two (metrics.js:175).
toFixed4(a) ==
  LET p == times(a, 10000)
  IN  (p[4] + Radix \div 2) \div Radix + p[5] + p[6] * Radix

(***************************************************************************)
(* The metric aggregator and exporter (metrics.js).                        *)
(***************************************************************************)
\* Tracking calls in a behaviour of MetricsSpec.
MaxTracks == 2
\* Export cycles in a behaviour of MetricsSpec.
MaxExports == 2

NoMetricsConfig == [metrics |-> FALSE, url |-> FALSE, apiKey |-> FALSE]
MetricsConfigs ==
  { NoMetricsConfig,
    [metrics |-> TRUE, url |-> FALSE, apiKey |-> TRUE],
    [metrics |-> TRUE, url |-> TRUE, apiKey |-> FALSE],
    [metrics |-> TRUE, url |-> TRUE, apiKey |-> TRUE] }

metricsConfiguredUrlOnly == metricsConfig.metrics /\ metricsConfig.url
\* metrics.js:147, negated
metricsConfigured ==
  metricsConfig.metrics /\ metricsConfig.url /\ metricsConfig.apiKey

\* metrics.js:25-46
InitMetrics(configs, tracks, cycles) ==
  /\ metricsConfig \in configs
  /\ counters = [totalRequests |-> 0, getRequests |-> 0, postRequests |-> 0,
                 putRequests |-> 0, deleteRequests |-> 0,
                 authAttempts |-> 0, authSuccesses |-> 0, authFailures |-> 0,
                 pizzasSold |-> 0, pizzaCreationFails |-> 0,
                 revenue |-> Whole(0)]
  /\ activeUsers = {}
  /\ serviceLatencies = <<>>
  /\ pizzaLatencies = <<>>
  /\ exports = <<>>
  /\ reads = <<>>
  /\ nextSample = 1
  /\ tracksLeft = tracks
  /\ exportsLeft = cycles
  /\ exportFailures = 0
  /\ unrecognized = 0
  /\ tracked = [before |-> {}, since |-> {}]

CanTrack == proc = "running" /\ tracksLeft > 0

TrackedCall(op, arg) ==
  /\ tracksLeft' = tracksLeft - 1
  /\ last' = [Last(op, 0, 0, FALSE) EXCEPT !.arg = arg]
  /\ tracked' = IF op = "trackActiveUser" /\ arg \notin {Undef, Null, Str("")}
                THEN [tracked EXCEPT !.since = @ \cup {arg}] ELSE tracked
  /\ UNCHANGED <<logVars, callVars, metricsConfig, exports, reads, exportsLeft,
                 exportFailures>>

Tracked(op) == TrackedCall(op, "none")

Methods == {"GET", "POST", "PUT", "DELETE", "PATCH", "get"}
Recognized == {"GET", "POST", "PUT", "DELETE"}

\* A latency sample: the number pushed, and which push it was (history).
Sample(ms) == [ms |-> ms, id |-> nextSample]

\* An incrementRequests that files every other method under GET.
incrementRequestsElseGet(method) ==
  /\ counters' =
       [counters EXCEPT
          !.totalRequests = @ + 1,
          !.getRequests = IF method \notin {"POST", "PUT", "DELETE"} THEN @ + 1 ELSE @,
          !.postRequests = IF method = "POST" THEN @ + 1 ELSE @,
          !.putRequests = IF method = "PUT" THEN @ + 1 ELSE @,
          !.deleteRequests = IF method = "DELETE" THEN @ + 1 ELSE @]
  /\ unrecognized' = unrecognized + (IF method \in Recognized THEN 0 ELSE 1)
  /\ UNCHANGED <<activeUsers, serviceLatencies, pizzaLatencies, nextSample>>
\* metrics.js:49-55: the counters after incrementRequests.
countRequest(c, method) ==
  [c EXCEPT
     !.totalRequests = @ + 1,
     !.getRequests = IF method = "GET" THEN @ + 1 ELSE @,
     !.postRequests = IF method = "POST" THEN @ + 1 ELSE @,
     !.putRequests = IF method = "PUT" THEN @ + 1 ELSE @,
     !.deleteRequests = IF method = "DELETE" THEN @ + 1 ELSE @]

\* metrics.js:48-56
incrementRequests(method) ==
  /\ counters' = countRequest(counters, method)
  /\ unrecognized' = unrecognized + (IF method \in Recognized THEN 0 ELSE 1)
  /\ UNCHANGED <<activeUsers, serviceLatencies, pizzaLatencies, nextSample>>

IncrementRequests ==
  /\ CanTrack
  /\ \E method \in Methods :
        incrementRequests(method) /\ TrackedCall("incrementRequests", method)

\* A trackActiveUser that keeps every call, also one without an identifier.
trackActiveUserUnguarded(userId) ==
  /\ activeUsers' = activeUsers \cup {userId}
  /\ UNCHANGED <<counters, serviceLatencies, pizzaLatencies, nextSample, unrecognized>>
\* metrics.js:59-61: the set after trackActiveUser.
addActiveUser(set, userId) == IF ~Falsy(userId) THEN set \cup {userId} ELSE set

\* metrics.js:58-62
trackActiveUser(userId) ==
  /\ activeUsers' = addActiveUser(activeUsers, userId)
  /\ UNCHANGED <<counters, serviceLatencies, pizzaLatencies, nextSample, unrecognized>>

\* The identifiers the callers pass: none, the empty string, or a user's id.
UserIds == {Undef, Null, Str(""), Num(1), Num(2)}

TrackActiveUser ==
  /\ CanTrack
  /\ \E userId \in UserIds :
        trackActiveUser(userId) /\ TrackedCall("trackActiveUser", userId)

\* A trackAuthAttempt that counts the attempt only when it succeeded.
trackAuthAttemptOnSuccess(success) ==
  /\ counters' =
       [counters EXCEPT
          !.authAttempts = IF success THEN @ + 1 ELSE @,
          !.authSuccesses = IF success THEN @ + 1 ELSE @,
          !.authFailures = IF success THEN @ ELSE @ + 1]
  /\ UNCHANGED <<activeUsers, serviceLatencies, pizzaLatencies, nextSample, unrecognized>>
\* metrics.js:65-70: the counters after trackAuthAttempt.
countAuthAttempt(c, success) ==
  [c EXCEPT
     !.authAttempts = @ + 1,
     !.authSuccesses = IF success THEN @ + 1 ELSE @,
     !.authFailures = IF success THEN @ ELSE @ + 1]

\* metrics.js:64-71
trackAuthAttempt(success) ==
  /\ counters' = countAuthAttempt(counters, success)
  /\ UNCHANGED <<activeUsers, serviceLatencies, pizzaLatencies, nextSample, unrecognized>>

TrackAuthAttempt ==
  /\ CanTrack
  /\ \E success \in BOOLEAN :
        trackAuthAttempt(success) /\ TrackedCall("trackAuthAttempt", success)

\* A trackPizzaPurchase that books the revenue of a failed purchase too.
trackPizzaPurchaseRevenueAlways(success, latency, pizzaCount, revenue) ==
  /\ counters' =
       IF success
       THEN [counters EXCEPT !.pizzasSold = @ + pizzaCount,
                             !.revenue = numberAdd(@, revenue)]
       ELSE [counters EXCEPT !.pizzaCreationFails = @ + pizzaCount,
                             !.revenue = numberAdd(@, revenue)]
  /\ IF ~Falsy(latency)
     THEN /\ pizzaLatencies' = Append(pizzaLatencies, Sample(latency.n))
          /\ nextSample' = nextSample + 1
     ELSE UNCHANGED <<pizzaLatencies, nextSample>>
  /\ UNCHANGED <<activeUsers, serviceLatencies, unrecognized>>
\* metrics.js:73-84
trackPizzaPurchase(success, latency, pizzaCount, revenue) ==
  /\ counters' =
       IF success
       THEN [counters EXCEPT !.pizzasSold = @ + pizzaCount,
                             !.revenue = numberAdd(@, revenue)]
       ELSE [counters EXCEPT !.pizzaCreationFails = @ + pizzaCount]
  /\ IF ~Falsy(latency)
     THEN /\ pizzaLatencies' = Append(pizzaLatencies, Sample(latency.n))
          /\ nextSample' = nextSample + 1
     ELSE UNCHANGED <<pizzaLatencies, nextSample>>
  /\ UNCHANGED <<activeUsers, serviceLatencies, unrecognized>>

\* A call of trackPizzaPurchase with arguments out of the given sets.
PizzaPurchase(successes, latencies, pizzaCounts, revenues) ==
  /\ CanTrack
  /\ \E success \in successes, latency \in latencies,
        pizzaCount \in pizzaCounts, revenue \in revenues :
        /\ trackPizzaPurchase(success, latency, pizzaCount, revenue)
        /\ TrackedCall("trackPizzaPurchase",
                       [success |-> success, latency |-> latency,
                        pizzaCount |-> pizzaCount, revenue |-> revenue])

\* The latencies the callers pass: none, 0 ms, 5 ms.
Latencies == {Undef, Num(0), Num(5)}

TrackPizzaPurchase == PizzaPurchase(BOOLEAN, Latencies, {1, 2}, {Whole(3)})

\* metrics.js:86-88
trackServiceLatency(latency) ==
  /\ serviceLatencies' = Append(serviceLatencies, Sample(latency))
  /\ nextSample' = nextSample + 1
  /\ UNCHANGED <<counters, activeUsers, pizzaLatencies, unrecognized>>

TrackServiceLatency ==
  /\ CanTrack
  /\ \E latency \in {0, 7} : trackServiceLatency(latency)
  /\ Tracked("trackServiceLatency")

(***************************************************************************)
(* MetricsBuilder and the export.  A payload is the list of its lines;     *)
(* toString() joins them with newlines, so the string is empty exactly     *)
(* when there is no line.                                                  *)
(***************************************************************************)
addMetricIfPositive(metrics, metricPrefix, value, metricType) ==
  IF value > 0
  THEN Append(metrics, [name |-> metricPrefix, value |-> value, type |-> metricType])
  ELSE metrics
\* metrics.js:10-13
addMetric(metrics, metricPrefix, value, metricType) ==
  Append(metrics, [name |-> metricPrefix, value |-> value, type |-> metricType])

RECURSIVE SumMs(_)
\* latencies.reduce((a, b) => a + b, 0)
SumMs(samples) == IF samples = <<>> THEN 0 ELSE Head(samples).ms + SumMs(Tail(samples))

\* (sum / n).toFixed(2), in hundredths, rounded to the nearest.
toFixed2(sum, n) == (2 * 100 * sum + n) \div (2 * n)

\* os.loadavg, os.cpus, os.totalmem, os.freemem as getCpuUsagePercentage and
\* getMemoryUsagePercentage report them (metrics.js:90-101), in hundredths.
SystemReadings == {[cpu |-> 2550, memory |-> 5000]}

\* metrics.js:151-186: the lines the builder holds when toString is called.
buildMetrics(system) ==
  LET m1 == addMetric(<<>>, "http_requests_total", counters.totalRequests, "counter")
      m2 == addMetric(m1, "http_requests_get", counters.getRequests, "counter")
      m3 == addMetric(m2, "http_requests_post", counters.postRequests, "counter")
      m4 == addMetric(m3, "http_requests_put", counters.putRequests, "counter")
      m5 == addMetric(m4, "http_requests_delete", counters.deleteRequests, "counter")
      m6 == addMetric(m5, "active_users", Cardinality(activeUsers), "gauge")
      m7 == addMetric(m6, "auth_attempts", counters.authAttempts, "counter")
      m8 == addMetric(m7, "auth_successes", counters.authSuccesses, "counter")
      m9 == addMetric(m8, "auth_failures", counters.authFailures, "counter")
      m10 == addMetric(m9, "cpu_usage_percent", system.cpu, "gauge")
      m11 == addMetric(m10, "memory_usage_percent", system.memory, "gauge")
      m12 == addMetric(m11, "pizzas_sold", counters.pizzasSold, "counter")
      m13 == addMetric(m12, "pizza_creation_fails", counters.pizzaCreationFails, "counter")
      m14 == addMetric(m13, "revenue", toFixed4(counters.revenue), "counter")
      m15 == IF Len(serviceLatencies) > 0
             THEN addMetric(m14, "service_latency_ms",
                            toFixed2(SumMs(serviceLatencies), Len(serviceLatencies)), "gauge")
             ELSE m14
      m16 == IF Len(pizzaLatencies) > 0
             THEN addMetric(m15, "pizza_creation_latency_ms",
                            toFixed2(SumMs(pizzaLatencies), Len(pizzaLatencies)), "gauge")
             ELSE m15
  IN  m16

Pending(metricsString) == [metricsString |-> metricsString]

\* The callback of setInterval in sendMetricsPeriodically (metrics.js:135-143)
\* running sendMetricsToGrafana (metrics.js:145-192) up to its await.
ExportStart ==
  /\ proc = "running"
  /\ exportsLeft > 0
  /\ exportsLeft' = exportsLeft - 1
  /\ IF ~metricsConfigured
     THEN /\ last' = Last("export", 0, 0, FALSE)
          /\ UNCHANGED <<serviceLatencies, pizzaLatencies, exports, reads, tracked>>
     ELSE \E system \in SystemReadings :
          \E metricsString \in {buildMetrics(system)} :
            /\ reads' = reads \o serviceLatencies \o pizzaLatencies
            /\ tracked' = [before |-> tracked.before \cup tracked.since, since |-> {}]
            /\ IF metricsString # <<>>
               THEN /\ exports' = Append(exports, Pending(metricsString))
                    /\ last' = Last("export", 0, 1, FALSE)
                    /\ UNCHANGED <<serviceLatencies, pizzaLatencies>>
               ELSE /\ serviceLatencies' = <<>>
                    /\ pizzaLatencies' = <<>>
                    /\ last' = Last("export", 0, 0, FALSE)
                    /\ UNCHANGED exports
  /\ UNCHANGED <<logVars, callVars, metricsConfig, counters, activeUsers, nextSample,
                 tracksLeft, exportFailures, unrecognized>>

\* An export that gave its counters to the backend and starts them over.
ExportSettleResetsCounters(i, outcome) ==
  /\ proc = "running"
  /\ i \in DOMAIN exports
  /\ exports' = RemoveAt(exports, i)
  /\ serviceLatencies' = <<>>
  /\ pizzaLatencies' = <<>>
  /\ counters' = [f \in DOMAIN counters |-> IF f = "revenue" THEN Whole(0) ELSE 0]
  /\ last' = [Last("exported", 0, 0, FALSE) EXCEPT !.outcome = outcome]
  /\ exportFailures' = exportFailures + (IF outcome = "ok" THEN 0 ELSE 1)
  /\ UNCHANGED <<logVars, callVars, metricsConfig, activeUsers, reads, nextSample,
                 tracksLeft, exportsLeft, unrecognized, tracked>>
\* An export that starts the set of active users over once it has settled.
ExportSettleClearsActiveUsers(i, outcome) ==
  /\ proc = "running"
  /\ i \in DOMAIN exports
  /\ exports' = RemoveAt(exports, i)
  /\ serviceLatencies' = <<>>
  /\ pizzaLatencies' = <<>>
  /\ activeUsers' = {}
  /\ last' = [Last("exported", 0, 0, FALSE) EXCEPT !.outcome = outcome]
  /\ exportFailures' = exportFailures + (IF outcome = "ok" THEN 0 ELSE 1)
  /\ UNCHANGED <<logVars, callVars, metricsConfig, counters, reads, nextSample,
                 tracksLeft, exportsLeft, unrecognized, tracked>>
\* An export that sends its payload again when the delivery failed.
ExportSettleRetries(i, outcome) ==
  /\ proc = "running"
  /\ i \in DOMAIN exports
  /\ exports' = IF outcome = "ok" THEN RemoveAt(exports, i) ELSE exports
  /\ serviceLatencies' = <<>>
  /\ pizzaLatencies' = <<>>
  /\ last' = [Last("exported", 0, IF outcome = "ok" THEN 0 ELSE 1, FALSE)
                EXCEPT !.outcome = outcome]
  /\ exportFailures' = exportFailures + (IF outcome = "ok" THEN 0 ELSE 1)
  /\ UNCHANGED <<logVars, callVars, metricsConfig, counters, activeUsers, reads, nextSample,
                 tracksLeft, exportsLeft, unrecognized, tracked>>
\* sendToGrafana settles, whatever the outcome (metrics.js:199-216 catches
\* every failure and raises none), and sendMetricsToGrafana resumes
\* (metrics.js:194-196).
ExportSettle(i, outcome) ==
  /\ proc = "running"
  /\ i \in DOMAIN exports
  /\ exports' = RemoveAt(exports, i)
  /\ serviceLatencies' = <<>>
  /\ pizzaLatencies' = <<>>
  /\ last' = [Last("exported", 0, 0, FALSE) EXCEPT !.outcome = outcome]
  /\ exportFailures' = exportFailures + (IF outcome = "ok" THEN 0 ELSE 1)
  /\ UNCHANGED <<logVars, callVars, metricsConfig, counters, activeUsers, reads, nextSample,
                 tracksLeft, exportsLeft, unrecognized, tracked>>

ExportSettles == \E i \in DOMAIN exports, outcome \in Outcomes : ExportSettle(i, outcome)

MetricsInit ==
  /\ InitLogger({[logging |-> FALSE, url |-> FALSE, creds |-> FALSE]}, 0)
  /\ InitMetrics(MetricsConfigs, MaxTracks, MaxExports)
  /\ NoCalls

MetricsNext ==
  \/ IncrementRequests
  \/ TrackActiveUser
  \/ TrackAuthAttempt
  \/ TrackPizzaPurchase
  \/ TrackServiceLatency
  \/ ExportStart
  \/ ExportSettles

MetricsSpec == MetricsInit /\ [][MetricsNext]_vars

(***************************************************************************)
(* Purchases of one pizza at 0.10 each, all successful, and an export.     *)
(***************************************************************************)
\* trackPizzaPurchase calls in a behaviour of RevenueSpec.
MaxPurchases == 100
\* Export cycles in a behaviour of RevenueSpec.
MaxRevenueExports == 1

DimePurchase == PizzaPurchase({TRUE}, {Undef}, {1}, {Dime})

RevenueInit ==
  /\ InitLogger({[logging |-> FALSE, url |-> FALSE, creds |-> FALSE]}, 0)
  /\ InitMetrics({[metrics |-> TRUE, url |-> TRUE, apiKey |-> TRUE]},
                 MaxPurchases, MaxRevenueExports)
  /\ NoCalls

RevenueNext ==
  \/ DimePurchase
  \/ ExportStart
  \/ ExportSettles

RevenueSpec == RevenueInit /\ [][RevenueNext]_vars

Init ==
  /\ InitLogger(LogConfigs, MaxLogs)
  /\ InitMetrics({NoMetricsConfig}, 0, 0)
  /\ NoCalls

Next ==
  \/ LogCall
  \/ TimerFlush
  \/ Settle
  \/ Exit
  \/ Sigint

Spec == Init /\ [][Next]_vars

(***************************************************************************)
(* The call sites with their payloads: what the records hold.  The values  *)
(* passed are all the structured values of a bounded shape over a few      *)
(* keys, so that sensitive keys occur at the top, nested in mappings and   *)
(* nested in arrays, beside keys that are not sensitive.                   *)
(***************************************************************************)
\* log() calls in a behaviour of RecordSpec.
MaxRecordLogs == 1

ObjsOver(keys, values) == {Obj(f) : f \in UNION {[ks -> values] : ks \in SUBSET keys}}
ArrsOver(values) == {Arr(<<>>)} \cup {Arr(<<v>>) : v \in values}

Leaves == {Str("x")}
Level1 == Leaves \cup ObjsOver({"password", "keep"}, Leaves) \cup ArrsOver(Leaves)
Level2 == ObjsOver({"Authorization", "nested"}, Level1) \cup ArrsOver(Level1)
Deeper ==
  { Obj([items |-> Arr(<<Obj([userToken |-> Str("x"), name |-> Str("x")])>>)]),
    Obj([nested |-> Obj([nested |-> Obj([jwt |-> Num(1), keep |-> Null])])]),
    Arr(<<Arr(<<Obj([secret |-> Arr(<<Str("x")>>), Password |-> Str("x")])>>)>>),
    Obj([author |-> Obj([name |-> Str("x")]), token |-> Null]),
    Obj([password |-> Undef, keep |-> Undef]),
    Arr(<<Undef>>),
    Obj([keep |-> Cyc]) }
\* A response body: none, or one with a sensitive key.
Bodies == {Undef, Obj([token |-> Str("x"), name |-> Str("x")])}
Samples == Deeper \cup {Null, Undef, Num(0), Cyc}
Payloads == Level2 \cup Samples

\* An Error object, or null for "no error".
Errors == {Null, Obj([message |-> Str("x"), stack |-> Str("x")])}
\* error?.message, error.message, error.stack
Member(error, k) == IF error.t = "obj" /\ k \in DOMAIN error.kv THEN error.kv[k] ELSE Undef

LogRecordCall ==
  /\ CanLog
  /\ \E d \in Payloads : log(Str("info"), Str("http"), Str("m"), d)

\* logger.js:107-119
logDbQuery(query, params, duration, error) ==
  \E p \in {sanitize(params)} :
      IF p = Threw THEN Raise
      ELSE log(IF error.t = "null" THEN Str("info") ELSE Str("error"),
               Str("database"),
               IF error.t = "null" THEN Str("Database query") ELSE Str("Database query failed"),
               Obj([query |-> query, params |-> p, duration |-> duration,
                    error |-> Member(error, "message")]))

LogDbQueryCall ==
  /\ CanLog
  /\ \E params \in Samples, error \in Errors :
        logDbQuery(Str("q"), params, Num(1), error)

\* logger.js:122-135
logFactoryRequest(requestBody, responseBody, statusCode, duration, error) ==
  \E req \in {sanitize(requestBody)}, res \in {sanitize(responseBody)} :
      IF req = Threw \/ res = Threw THEN Raise
      ELSE log(IF error.t = "null" THEN Str("info") ELSE Str("error"),
               Str("factory"),
               IF error.t = "null" THEN Str("Factory request") ELSE Str("Factory request failed"),
               Obj([requestBody |-> req, responseBody |-> res, statusCode |-> statusCode,
                    duration |-> duration, error |-> Member(error, "message")]))

LogFactoryRequestCall ==
  /\ CanLog
  /\ \E requestBody \in Samples, responseBody \in Bodies, error \in Errors :
        logFactoryRequest(requestBody, responseBody, Num(200), Num(1), error)

\* logger.js:138-144
logException(error, contextArg) ==
  \E c \in {sanitize(IF contextArg.t = "undef" THEN EmptyObj ELSE contextArg)} :  \* context = {}
      IF c = Threw THEN Raise
      ELSE log(Str("error"), Str("exception"), Str("Unhandled exception"),
               Obj(Over([errorMessage |-> Member(error, "message"),
                         errorStack |-> Member(error, "stack")],
                        Spread(c))))

LogExceptionCall ==
  /\ CanLog
  /\ \E context \in Samples : \E error \in Errors \ {Null} : logException(error, context)

\* logger.js:92-101: the details of the record of a request.
httpDetails(method, body, responseBody, authorization) ==
  Obj([method |-> method, path |-> Str("/"), statusCode |-> Num(200),
       duration |-> Num(1), hasAuth |-> Bool(~Falsy(authorization)),
       requestBody |-> body, responseBody |-> responseBody, ip |-> Str("x")])

\* logger.js:88-101: the 'finish' handler httpLogger registers.
httpFinish(method, body, responseBody, authorization) ==
  log(Str("info"), Str("http"), Str("HTTP Request"),
      httpDetails(method, body, responseBody, authorization))

HttpFinish ==
  /\ CanLog
  /\ \E body \in Samples, responseBody \in Bodies, authorization \in {Undef, Str("x")} :
        httpFinish(Str("GET"), body, responseBody, authorization)

RecordInit ==
  /\ InitLogger({c \in LogConfigs : c.url = c.creds}, MaxRecordLogs)
  /\ InitMetrics({NoMetricsConfig}, 0, 0)
  /\ NoCalls

RecordNext ==
  \/ LogRecordCall
  \/ LogDbQueryCall
  \/ LogFactoryRequestCall
  \/ LogExceptionCall
  \/ HttpFinish
  \/ TimerFlush
  \/ Settle
  \/ Exit

RecordSpec == RecordInit /\ [][RecordNext]_vars

(***************************************************************************)
(* Both pipelines of one process, with both destinations configured: the   *)
(* request path logs and tracks while deliveries of either kind are        *)
(* pending.                                                                *)
(***************************************************************************)
\* log() calls, tracking calls and export cycles in a behaviour of
\* PipelineSpec.
MaxPipelineLogs == 2
MaxPipelineTracks == 1
MaxPipelineExports == 1

PipelineInit ==
  /\ InitLogger({[logging |-> TRUE, url |-> TRUE, creds |-> TRUE]}, MaxPipelineLogs)
  /\ InitMetrics({[metrics |-> TRUE, url |-> TRUE, apiKey |-> TRUE]},
                 MaxPipelineTracks, MaxPipelineExports)
  /\ NoCalls

PipelineNext ==
  \/ LogCall
  \/ Settle
  \/ IncrementRequests
  \/ TrackActiveUser
  \/ TrackAuthAttempt
  \/ TrackPizzaPurchase
  \/ TrackServiceLatency
  \/ ExportStart
  \/ ExportSettles

PipelineSpec == PipelineInit /\ [][PipelineNext]_vars

(***************************************************************************)
(* formatForLoki on every batch of a bounded length whose records differ   *)
(* in level and type, under configurations with and without a source       *)
(* name.  The batch is in the buffer (a buffer of any length forms when    *)
(* failed batches are put back); the timer flushes it.                     *)
(***************************************************************************)
\* The longest batch of LokiSpec.
MaxBatch == 3

LokiConfigs ==
  { [logging |-> TRUE, url |-> TRUE, creds |-> TRUE],
    [logging |-> TRUE, url |-> TRUE, creds |-> TRUE, source |-> ""],
    [logging |-> TRUE, url |-> TRUE, creds |-> TRUE, source |-> "pizza-dev"] }

\* The levels and types the call sites of logger.js pass.
Levels == {Str("info"), Str("error")}
Types == {Str("http"), Str("database")}

\* The buffers of n records that log() builds from these levels and types.
BuffersOf(n) ==
  { [i \in 1..n |-> Record(i, logEntry(f[i][1], f[i][2], Str("m"), EmptyObj, Num(i)))] :
      f \in [1..n -> Levels \X Types] }

LokiInit ==
  /\ logConfig \in LokiConfigs
  /\ logBuffer \in UNION {BuffersOf(n) : n \in 1..MaxBatch}
  /\ nextId = Len(logBuffer) + 1
  /\ inflight = <<>>
  /\ delivered = <<>>
  /\ proc = "running"
  /\ logsLeft = 0
  /\ last = Last("init", 0, 0, FALSE)
  /\ InitMetrics({NoMetricsConfig}, 0, 0)
  /\ NoCalls

LokiNext ==
  \/ TimerFlush
  \/ Settle

LokiSpec == LokiInit /\ [][LokiNext]_vars

(***************************************************************************)
(* The sanitizer by itself: a value is handed to sanitize, and what it     *)
(* returns is handed to it again.                                          *)
(***************************************************************************)
\* Calls of sanitize in a row in a behaviour of SanitizeSpec.
MaxApplications == 2

\* The value the specification gives as its example.
Example ==
  Obj([password |-> Str("x"),
       nested |-> Obj([token |-> Str("y"), keep |-> Str("z")])])
SanitizeInputs == Payloads \cup {Example, Str("x"), Num(1), Bool(TRUE)}

\* sanitize(data), or sanitize(sanitize(...)): a call that raised gives the
\* next call nothing to work on.
SanitizeCall ==
  /\ Len(sanitizeResults) < MaxApplications
  /\ \E data \in {IF sanitizeResults = <<>> THEN sanitizeInput
                   ELSE sanitizeResults[Len(sanitizeResults)]} :
        sanitizeResults' =
          Append(sanitizeResults, IF data = Threw THEN Threw ELSE sanitize(data))
  /\ last' = Last("sanitize", 0, 0, FALSE)
  /\ UNCHANGED <<logVars, metricVars, sanitizeInput, heap, routeVars, requests>>

SanitizeInit ==
  /\ InitLogger({[logging |-> FALSE, url |-> FALSE, creds |-> FALSE]}, 0)
  /\ InitMetrics({NoMetricsConfig}, 0, 0)
  /\ InitSanitizer(SanitizeInputs)
  /\ InitRoutes({<< >>}, 0)

SanitizeNext == SanitizeCall

SanitizeSpec == SanitizeInit /\ [][SanitizeNext]_vars

(***************************************************************************)
(* The routes and their guards.  The routers are not among the sources at  *)
(* hand; this part follows what their tests expect of them                 *)
(* (routes/authRouter.test.js, userRouter.test.js, orderRouter.test.js).   *)
(***************************************************************************)
\* Requests in a behaviour of RouteSpec.
MaxRequests == 4
\* Users the database may hold.
MaxUsers == 2
\* Tokens the service may issue.
MaxTokens == 2

\* An Authorization header: absent, the empty string, one word
\* ('InvalidFormat'), or 'Bearer <token>'.  Token 0 is a token the service
\* never issued ('invalidtoken').
NoHeader == [kind |-> "absent", token |-> 0]
Bearer(token) == [kind |-> "bearer", token |-> token]
Headers ==
  {NoHeader, [kind |-> "empty", token |-> 0], [kind |-> "malformed", token |-> 0]}
    \cup {Bearer(t) : t \in 0..MaxTokens}
\* A request body: one that passes the validation of its route, or not.
RequestBodies == {"valid", "invalid"}

Diner == [roles |-> {"diner"}, updates |-> 0]
Admin == [roles |-> {"admin"}, updates |-> 0]

\* The token of a header: its second word, if it has one.
readAuthToken(authorization) ==
  IF authorization.kind = "bearer" THEN {authorization.token} ELSE {}

\* A guard that takes a request without a signed-in token for the first
\* user's.
setAuthUserDefault(authorization) ==
  IF \E t \in readAuthToken(authorization) : t \in DOMAIN sessions /\ sessions[t].active
  THEN sessions[authorization.token].user
  ELSE IF users # << >> THEN 1 ELSE 0
\* The user a request is made as: the owner of its token if that token is
\* signed in, nobody (0) otherwise.
setAuthUser(authorization) ==
  IF \E t \in readAuthToken(authorization) : t \in DOMAIN sessions /\ sessions[t].active
  THEN sessions[authorization.token].user
  ELSE 0

isRole(user, role) == user \in DOMAIN users /\ role \in users[user].roles

\* The answer to a request, recorded with the request.
Answer(endpoint, authorization, body, target, status, message) ==
  /\ requestsLeft > 0
  /\ requestsLeft' = requestsLeft - 1
  /\ response' = [endpoint |-> endpoint, authorization |-> authorization,
                  body |-> body, user |-> setAuthUser(authorization),
                  target |-> target, status |-> status, message |-> message]
  /\ last' = Last("request", 0, 0, FALSE)
  /\ UNCHANGED <<logVars, metricVars, sanitizeVars, requests>>

Unauthorized(endpoint, authorization, body, target) ==
  /\ Answer(endpoint, authorization, body, target, 401, "unauthorized")
  /\ UNCHANGED <<users, sessions, franchises, menu>>

\* POST /api/auth
Register ==
  \E authorization \in Headers, body \in RequestBodies :
      IF body = "invalid"
      THEN /\ Answer("register", authorization, body, 0, 400,
                     "name, email, and password are required")
           /\ UNCHANGED <<users, sessions, franchises, menu>>
      ELSE /\ Len(users) < MaxUsers
           /\ Len(sessions) < MaxTokens
           /\ users' = Append(users, Diner)
           /\ sessions' = Append(sessions, [user |-> Len(users) + 1, active |-> TRUE])
           /\ Answer("register", authorization, body, Len(users) + 1, 200, "ok")
           /\ UNCHANGED <<franchises, menu>>

\* PUT /api/auth: the body names a user and holds the password or another.
Login ==
  \E authorization \in Headers, body \in RequestBodies, target \in 1..MaxUsers :
      IF body = "invalid" \/ target \notin DOMAIN users
      THEN /\ Answer("login", authorization, body, target, 404, "unknown user")
           /\ UNCHANGED <<users, sessions, franchises, menu>>
      ELSE /\ Len(sessions) < MaxTokens
           /\ sessions' = Append(sessions, [user |-> target, active |-> TRUE])
           /\ Answer("login", authorization, body, target, 200, "ok")
           /\ UNCHANGED <<users, franchises, menu>>

\* DELETE /api/auth
Logout ==
  \E authorization \in Headers :
      IF setAuthUser(authorization) = 0
      THEN Unauthorized("logout", authorization, "valid", 0)
      ELSE /\ sessions' = [sessions EXCEPT ![authorization.token].active = FALSE]
           /\ Answer("logout", authorization, "valid", 0, 200, "logout successful")
           /\ UNCHANGED <<users, franchises, menu>>

\* GET /api/user/me, GET /api/order, POST /api/order, GET /api/franchise/:userId
Reads == {"getUser", "getOrders", "createOrder", "getUserFranchises"}
Read ==
  \E endpoint \in Reads, authorization \in Headers, body \in RequestBodies :
      IF setAuthUser(authorization) = 0
      THEN Unauthorized(endpoint, authorization, body, 0)
      ELSE /\ Answer(endpoint, authorization, body, 0, 200, "ok")
           /\ UNCHANGED <<users, sessions, franchises, menu>>

\* A route that looks at the body before it looks at who asks.
privilegedValidatingFirst(allowed, body, denial) ==
  IF body = "invalid" THEN [status |-> 400, message |-> "bad request"]
  ELSE IF ~allowed THEN [status |-> 403, message |-> denial]
  ELSE [status |-> 200, message |-> "ok"]
\* What a route that changes something answers to a signed-in user: the
\* refusal if the user may not, and only then what the body deserves.
privileged(allowed, body, denial) ==
  IF ~allowed THEN [status |-> 403, message |-> denial]
  ELSE IF body = "invalid" THEN [status |-> 400, message |-> "bad request"]
  ELSE [status |-> 200, message |-> "ok"]

\* A request on a route that changes something: refused without a user,
\* answered as privileged says, and carried out (change) if that is 200.
Change(endpoint, authorization, body, target, allowed, denial, change) ==
  IF setAuthUser(authorization) = 0
  THEN Unauthorized(endpoint, authorization, body, target)
  ELSE \E r \in {privileged(allowed, body, denial)} :
         /\ Answer(endpoint, authorization, body, target, r.status, r.message)
         /\ IF r.status = 200 THEN change
            ELSE UNCHANGED <<users, sessions, franchises, menu>>

\* PUT /api/user/:userId
UpdateUser ==
  \E authorization \in Headers, body \in RequestBodies, userId \in 1..MaxUsers :
      Change("updateUser", authorization, body, userId,
             setAuthUser(authorization) = userId
               \/ isRole(setAuthUser(authorization), "admin"),
             "unauthorized",
             /\ userId \in DOMAIN users
             /\ users' = [users EXCEPT ![userId].updates = 1]
             /\ UNCHANGED <<sessions, franchises, menu>>)

\* PUT /api/order/menu
AddMenuItem ==
  \E authorization \in Headers, body \in RequestBodies :
      Change("addMenuItem", authorization, body, 0,
             isRole(setAuthUser(authorization), "admin"),
             "unable to add menu item",
             /\ menu' = 1
             /\ UNCHANGED <<users, sessions, franchises>>)

\* POST /api/franchise: the body names the user who is to administer it.
CreateFranchise ==
  \E authorization \in Headers, body \in RequestBodies, admin \in 1..MaxUsers :
      Change("createFranchise", authorization, body, admin,
             isRole(setAuthUser(authorization), "admin"),
             "unable to create a franchise",
             /\ admin \in DOMAIN users
             /\ franchises = << >>
             /\ franchises' = <<[admins |-> {admin}, stores |-> 0]>>
             /\ users' = [users EXCEPT ![admin].roles = @ \cup {"franchisee"}]
             /\ UNCHANGED <<sessions, menu>>)

\* May the user create and delete stores of the franchise?
administers(user, franchiseId) ==
  /\ franchiseId \in DOMAIN franchises
  /\ \/ isRole(user, "admin")
     \/ user \in franchises[franchiseId].admins

\* POST /api/franchise/:franchiseId/store
CreateStore ==
  \E authorization \in Headers, body \in RequestBodies, franchiseId \in 1..2 :
      Change("createStore", authorization, body, franchiseId,
             administers(setAuthUser(authorization), franchiseId),
             "unable to create a store",
             /\ franchises' = [franchises EXCEPT ![franchiseId].stores = 1]
             /\ UNCHANGED <<users, sessions, menu>>)

\* DELETE /api/franchise/:franchiseId/store/:storeId
DeleteStore ==
  \E authorization \in Headers, franchiseId \in 1..2 :
      Change("deleteStore", authorization, "valid", franchiseId,
             administers(setAuthUser(authorization), franchiseId),
             "unable to delete a store",
             /\ franchises' = [franchises EXCEPT ![franchiseId].stores = 0]
             /\ UNCHANGED <<users, sessions, menu>>)

\* The database holds nobody yet, or an administrator.
RouteInit ==
  /\ InitLogger({[logging |-> FALSE, url |-> FALSE, creds |-> FALSE]}, 0)
  /\ InitMetrics({NoMetricsConfig}, 0, 0)
  /\ InitSanitizer({Null})
  /\ InitRoutes({<< >>, <<Admin>>}, MaxRequests)

RouteNext ==
  \/ Register
  \/ Login
  \/ Logout
  \/ Read
  \/ UpdateUser
  \/ AddMenuItem
  \/ CreateFranchise
  \/ CreateStore
  \/ DeleteStore

RouteSpec == RouteInit /\ [][RouteNext]_vars

(***************************************************************************)
(* Properties of the log pipeline.                                         *)
(***************************************************************************)
RECURSIVE Batches(_)
\* The batches of the pending flushes, one after the other.
Batches(flights) ==
  IF flights = <<>> THEN <<>>
  ELSE Head(flights).logsToSend \o Batches(Tail(flights))

Ids(records) == {records[i].id : i \in DOMAIN records}
Everywhere == logBuffer \o Batches(inflight) \o delivered

\* C1: every record log() appended is in exactly one of the buffer, the
\* batch of one pending flush, or the delivered records: none is dropped,
\* none is delivered twice; and a record logged while a flush is pending is
\* not in that flush's batch.
C1_RecordInExactlyOnePlace ==
  /\ Ids(Everywhere) = 1..(nextId - 1)
  /\ Len(Everywhere) = nextId - 1
  /\ \A i \in DOMAIN inflight :
       Ids(inflight[i].during) \cap Ids(inflight[i].logsToSend) = {}

C1_Witness ==
  /\ Len(logBuffer) > 0
  /\ Len(inflight) > 0
  /\ Len(delivered) > 0
  /\ \E i \in DOMAIN inflight : Len(inflight[i].during) > 0
  /\ last.op = "failed"

\* C2: at no time are two flush() calls pending delivery at once.
C2_FlushExclusive == Len(inflight) <= 1

\* C3: right after a failed flush, the buffer is the failed batch, in its
\* order, followed by the records log() appended while it was pending.
C3_RequeueThenLoggedSince ==
  last.op = "failed" => logBuffer = last.flight.logsToSend \o last.flight.during

\* C6: a log() call that brings the buffer to the threshold or beyond, with
\* the destination url configured, starts a flush itself: the buffer is
\* swapped out whole, the new record included, and one delivery is issued.
C6_ThresholdFlushInLog ==
  [][(nextId' = nextId + 1 /\ Len(logBuffer) + 1 >= bufferSize /\ hasLogUrl)
       => /\ logBuffer' = <<>>
          /\ Len(inflight') = Len(inflight) + 1
          /\ LET batch == inflight'[Len(inflight')].logsToSend
             IN  /\ Len(batch) = Len(logBuffer) + 1
                 /\ SubSeq(batch, 1, Len(logBuffer)) = logBuffer
                 /\ batch[Len(batch)].id = nextId
          /\ last'.calls = 1]_vars

C6_Witness ==
  /\ last.op = "log"
  /\ last.calls = 1
  /\ logBuffer = <<>>
  /\ Len(inflight[Len(inflight)].logsToSend) > bufferSize

\* C7: with the url or the credentials not configured, a handler that
\* calls flush() makes no network call.
C7_UnconfiguredFlushInert ==
  (~(hasLogUrl /\ logConfig.creds) /\ last.flushes > 0) => last.calls = 0

\* C8: flush() on an empty buffer makes no network call and leaves the
\* buffer empty, whatever the configuration and the pending flushes.
C8_EmptyFlushNoCall ==
  [][(last'.op \in {"timer", "exit", "sigint"} /\ logBuffer = <<>>)
       => /\ logBuffer' = <<>>
          /\ inflight' = inflight
          /\ last'.calls = 0]_vars

C8_Witness ==
  /\ last.op = "timer"
  /\ last.calls = 0
  /\ logBuffer = <<>>
  /\ Len(inflight) > 0

(***************************************************************************)
(* Redaction.                                                              *)
(***************************************************************************)
\* The keys of the model whose lowercase form contains one of password,
\* token, auth, authorization, jwt, secret.
SensitiveKeys ==
  {"password", "Password", "token", "userToken", "Authorization", "hasAuth",
   "jwt", "secret", "author"}

RECURSIVE Redacted(_)
\* No sensitive key of v, at any depth, holds anything but the marker.
Redacted(v) ==
  CASE v.t = "obj" ->
         \A k \in DOMAIN v.kv :
            IF k \in SensitiveKeys THEN v.kv[k] = REDACTED ELSE Redacted(v.kv[k])
    [] v.t = "arr" -> \A i \in DOMAIN v.items : Redacted(v.items[i])
    [] OTHER -> TRUE

RECURSIVE HasKeyIn(_, _)
\* Some key of v, at any depth, is in keys.
HasKeyIn(v, keys) ==
  CASE v.t = "obj" ->
         \E k \in DOMAIN v.kv : k \in keys \/ HasKeyIn(v.kv[k], keys)
    [] v.t = "arr" -> \E i \in DOMAIN v.items : HasKeyIn(v.items[i], keys)
    [] OTHER -> FALSE

\* C5: no record in the buffer, in a pending batch or delivered holds, at
\* any depth (also in objects nested in arrays), a sensitive key with a
\* value other than the marker.
C5_RecordsRedacted ==
  \A i \in DOMAIN Everywhere : Redacted(Everywhere[i].entry)

\* A delivered record of the database logger whose params held a sensitive
\* key in an object nested in an array.
C5_Witness ==
  /\ Len(delivered) > 0
  /\ LET e == delivered[1].entry.kv
     IN  /\ e["type"] = Str("database")
         /\ "params" \in DOMAIN e
         /\ e["params"].t = "arr"
         /\ HasKeyIn(e["params"], SensitiveKeys)

(***************************************************************************)
(* Properties of the metric exporter.                                      *)
(***************************************************************************)
SampleIds == 1..(nextSample - 1)
InLists(id) == \E i \in DOMAIN (serviceLatencies \o pizzaLatencies) :
                  (serviceLatencies \o pizzaLatencies)[i].id = id
TimesRead(id) == Cardinality({i \in DOMAIN reads : reads[i].id = id})

\* C4: every latency sample recorded is read into the average of exactly
\* one export: none leaves the lists without having been read, none is
\* read by two exports.
C4_SampleReadExactlyOnce ==
  \A id \in SampleIds :
     /\ TimesRead(id) <= 1
     /\ ~InLists(id) => TimesRead(id) = 1

\* C9: with the url or the api key not configured an export cycle is a
\* no-op: no network call, no error, and the counters, the active users
\* and both latency lists unchanged.
C9_UnconfiguredExportNoop ==
  [][(exportsLeft' # exportsLeft /\ ~(metricsConfig.metrics /\ metricsConfig.url
                                       /\ metricsConfig.apiKey))
       => /\ last'.calls = 0
          /\ ~last'.threw
          /\ exports' = exports
          /\ UNCHANGED <<counters, activeUsers, serviceLatencies, pizzaLatencies>>]_vars

C9_Witness ==
  /\ last.op = "export"
  /\ metricsConfig.url /\ ~metricsConfig.apiKey
  /\ counters.totalRequests > 0
  /\ Len(serviceLatencies) > 0
  /\ last.calls = 0

Accumulated ==
  \/ \E f \in DOMAIN counters \ {"revenue"} : counters[f] # 0
  \/ counters.revenue # Whole(0)
  \/ activeUsers # {}
  \/ serviceLatencies # <<>>
  \/ pizzaLatencies # <<>>

C11_ExportChangesOnlyLatencyLists ==
  [][((exportsLeft' # exportsLeft \/ Len(exports') < Len(exports))
        /\ metricsConfig.metrics /\ metricsConfig.url /\ metricsConfig.apiKey)
       => /\ counters' = counters
          /\ activeUsers' = activeUsers
          /\ (Len(exports') < Len(exports)
                => serviceLatencies' = <<>> /\ pizzaLatencies' = <<>>)]_vars

\* An export whose delivery failed has completed: sales, revenue and an
\* active user are still counted, and the sample it averaged is gone.
C11_Witness ==
  /\ last.op = "exported"
  /\ last.outcome = "status"
  /\ counters.pizzasSold > 0
  /\ counters.revenue # Whole(0)
  /\ activeUsers # {}
  /\ reads # <<>>
  /\ serviceLatencies = <<>> /\ pizzaLatencies = <<>>

\* C12: a log delivery that fails, by a network error or by a response
\* that is not ok, is recovered in flush(): the continuation raises
\* nothing, delivers nothing and puts the attempted batch back in the
\* buffer; and no handler that issued a delivery has raised.
C12_DeliveryFailureRecovered ==
  [][/\ (last'.op \in {"failed", "delivered"} /\ last'.outcome \in {"status", "neterror"})
          => /\ ~last'.threw
             /\ last'.op = "failed"
             /\ logBuffer' = last'.flight.logsToSend \o logBuffer
             /\ delivered' = delivered
             /\ Len(inflight') = Len(inflight) - 1
     /\ last'.calls > 0 => ~last'.threw]_vars

\* The backend answered the delivery of a batch of threshold size with a
\* status that is not ok: the batch is back in the buffer.
C12_Witness ==
  /\ last.op = "failed"
  /\ last.outcome = "status"
  /\ Len(last.flight.logsToSend) >= bufferSize
  /\ logBuffer = last.flight.logsToSend
  /\ delivered = <<>>

\* C13: a metric delivery that fails is not raised and not retried: the
\* continuation issues no call and leaves no export pending for the
\* payload, the latency lists are cleared all the same, and an export
\* cycle that starts after a failure sends one payload as any other does.
C13_MetricFailureNotRetried ==
  [][/\ (last'.op = "exported" /\ last'.outcome \in {"status", "neterror"})
          => /\ ~last'.threw
             /\ last'.calls = 0
             /\ Len(exports') = Len(exports) - 1
             /\ serviceLatencies' = <<>> /\ pizzaLatencies' = <<>>
             /\ counters' = counters
     /\ (exportsLeft' # exportsLeft /\ metricsConfigured /\ exportFailures > 0)
          => /\ ~last'.threw
             /\ last'.calls = 1
             /\ Len(exports') = Len(exports) + 1]_vars

\* After an export whose delivery failed on the network and whose samples
\* were cleared, the next cycle has started and its delivery is pending.
C13_Witness ==
  /\ exportFailures = 1
  /\ last.op = "export"
  /\ last.calls = 1
  /\ Len(exports) = 1
  /\ reads # <<>>
  /\ serviceLatencies = <<>> /\ pizzaLatencies = <<>>

\* C14: log() and the loggers built on it return normally for every
\* details value, one that cannot be deep-copied included: no logging call
\* raises into its caller.
C14_LogReturnsNormally ==
  last.op = "log" => ~last.threw

RequestPathOps ==
  {"log", "incrementRequests", "trackActiveUser", "trackAuthAttempt",
   "trackPizzaPurchase", "trackServiceLatency"}

\* C15: no request-path operation waits for a delivery.  Each of log() and
\* the tracking calls completes with every delivery that was pending still
\* pending and nothing delivered meanwhile; the delivery a log() call
\* starts at the threshold is itself pending when the call returns.
C15_RequestPathNeverWaits ==
  [][last'.op \in RequestPathOps
       => /\ Len(inflight') >= Len(inflight)
          /\ \A i \in DOMAIN inflight : inflight'[i].logsToSend = inflight[i].logsToSend
          /\ exports' = exports
          /\ delivered' = delivered
          /\ Len(inflight') = Len(inflight) + last'.calls]_vars

\* A log() call has just flushed at the threshold and returned: its
\* delivery and a metric delivery are pending, and a tracking call was made.
C15_Witness ==
  /\ last.op = "log"
  /\ last.calls = 1
  /\ Len(inflight) = 1
  /\ Len(exports) = 1
  /\ tracksLeft < MaxPipelineTracks

\* C16: normal termination and the interrupt signal both attempt a final
\* flush before the process is gone: with the url configured and records
\* in the buffer, the handler swaps the whole buffer out and issues one
\* delivery for it.
C16_FinalFlushBeforeExit ==
  [][(proc = "running" /\ proc' = "exited" /\ hasLogUrl /\ logBuffer # <<>>)
       => /\ last'.flushes >= 1
          /\ last'.calls = 1
          /\ logBuffer' = <<>>
          /\ Len(inflight') = Len(inflight) + 1
          /\ inflight'[Len(inflight')].logsToSend = logBuffer]_vars

\* The interrupt handler has flushed a buffer that held a record.
C16_Witness ==
  /\ proc = "exited"
  /\ last.op = "sigint"
  /\ last.calls = 1
  /\ logBuffer = <<>>
  /\ Len(inflight) > 0
  /\ Len(inflight[Len(inflight)].logsToSend) > 0

RECURSIVE StreamIds(_)
\* The records the lines of a request body were made from, stream by stream.
StreamIds(streams) ==
  IF streams = <<>> THEN <<>>
  ELSE [j \in DOMAIN Head(streams).values |-> Head(streams).values[j].id]
         \o StreamIds(Tail(streams))

\* The one request of a flush carries every record of its batch, once.
Carries(flight) ==
  /\ Len(flight.logsToSend) > 0
  /\ Len(StreamIds(flight.streams)) = Len(flight.logsToSend)
  /\ {StreamIds(flight.streams)[j] : j \in DOMAIN StreamIds(flight.streams)}
       = Ids(flight.logsToSend)

\* C17: a flush() that finds records in the buffer and the url configured
\* makes exactly one delivery call, which carries the whole buffer; no
\* step starts more than one delivery.  When the delivery fails the batch
\* is back at the front of the buffer in its order (it is the whole buffer
\* if the buffer was empty); when it succeeds the buffer is left alone and
\* each record of the batch is delivered, none of them for a second time.
C17_OneCallPerFlushWholeBatch ==
  [][/\ (last'.op \in {"timer", "exit", "sigint"} /\ logBuffer # <<>> /\ hasLogUrl)
          => /\ last'.calls = 1
             /\ logBuffer' = <<>>
             /\ Len(inflight') = Len(inflight) + 1
             /\ inflight'[Len(inflight')].logsToSend = logBuffer
     /\ Len(inflight') > Len(inflight)
          => /\ Len(inflight') = Len(inflight) + 1
             /\ last'.calls = 1
             /\ Carries(inflight'[Len(inflight')])
     /\ last'.op = "failed"
          => /\ SubSeq(logBuffer', 1, Len(last'.flight.logsToSend)) = last'.flight.logsToSend
             /\ logBuffer = <<>> => logBuffer' = last'.flight.logsToSend
     /\ last'.op = "delivered"
          => /\ logBuffer' = logBuffer
             /\ delivered' = delivered \o last'.flight.logsToSend
             /\ Ids(delivered) \cap Ids(last'.flight.logsToSend) = {}]_vars

\* All the records logged were delivered in one call, in order, by a flush
\* that followed a failed one (a batch beyond the threshold forms only when
\* a failed batch was put back); nothing else is pending or buffered.
C17_Witness ==
  /\ last.op = "delivered"
  /\ Len(last.flight.logsToSend) > bufferSize
  /\ \A j \in DOMAIN delivered : delivered[j].id = j
  /\ delivered = last.flight.logsToSend
  /\ logBuffer = <<>>
  /\ inflight = <<>>

\* Where the record with this id stands in the batch.
PosIn(batch, id) == CHOOSE i \in DOMAIN batch : batch[i].id = id

\* The label set the record is filed under: its level, its type and the
\* configured source (the service's name when none is configured).
LabelsFor(rec) ==
  [level |-> rec.entry.kv["level"], type |-> rec.entry.kv["type"],
   source |-> IF "source" \in DOMAIN logConfig /\ logConfig.source # ""
              THEN Str(logConfig.source) ELSE Str("jwt-pizza-service")]

Partitioned(batch, streams) ==
  \* every record is in exactly one stream, the one with its labels
  /\ \A i \in DOMAIN batch :
       /\ Cardinality({<<s, j>> \in (DOMAIN streams) \X (1..Len(batch)) :
                          /\ j \in DOMAIN streams[s].values
                          /\ streams[s].values[j].id = batch[i].id}) = 1
       /\ \A s \in DOMAIN streams :
            (\E j \in DOMAIN streams[s].values : streams[s].values[j].id = batch[i].id)
              <=> streams[s].stream = LabelsFor(batch[i])
  \* inside a stream the records are in batch order
  /\ \A s \in DOMAIN streams : \A j, k \in DOMAIN streams[s].values :
       j < k => PosIn(batch, streams[s].values[j].id) < PosIn(batch, streams[s].values[k].id)
  \* the streams are in the order their labels first occur in the batch
  /\ \A s, t \in DOMAIN streams :
       s < t => /\ streams[s].values # <<>> /\ streams[t].values # <<>>
                /\ PosIn(batch, streams[s].values[1].id)
                     < PosIn(batch, streams[t].values[1].id)
  \* as many values as records
  /\ Len(StreamIds(streams)) = Len(batch)

\* C18: the streams formatForLoki makes of a batch partition it: every
\* record is in exactly one stream, the one labelled with its level, its
\* type and the source; a stream keeps the batch order; the streams are in
\* first-occurrence order; there are as many values as records.
C18_StreamsPartitionBatch ==
  \A i \in DOMAIN inflight : Partitioned(inflight[i].logsToSend, inflight[i].streams)

\* A batch of three records under a configured source name: the first and
\* the third share a stream, the second, of another level, has its own.
C18_Witness ==
  /\ "source" \in DOMAIN logConfig /\ logConfig.source = "pizza-dev"
  /\ Len(inflight) = 1
  /\ Len(inflight[1].logsToSend) = 3
  /\ Len(inflight[1].streams) = 2
  /\ StreamIds(inflight[1].streams) = <<1, 3, 2>>
  /\ inflight[1].streams[1].stream.level # inflight[1].streams[2].stream.level
  /\ inflight[1].streams[1].stream.source = Str("pizza-dev")

\* C19: whatever incrementRequests calls and exports have happened,
\* totalRequests is the sum of the four per-method counters plus the number
\* of calls whose method was none of GET, POST, PUT, DELETE; and such a
\* call changes totalRequests only.
C19_TotalIsSumPlusUnrecognized ==
  /\ [](counters.totalRequests
          = counters.getRequests + counters.postRequests + counters.putRequests
              + counters.deleteRequests + unrecognized)
  /\ [][(last'.op = "incrementRequests"
           /\ last'.arg \notin {"GET", "POST", "PUT", "DELETE"})
          => /\ counters' = [counters EXCEPT !.totalRequests = @ + 1]
             /\ UNCHANGED <<activeUsers, serviceLatencies, pizzaLatencies>>]_vars

\* A GET and a request of an unrecognized method were counted, and an
\* export cycle has run in between or after.
C19_Witness ==
  /\ counters.totalRequests = 2
  /\ counters.getRequests = 1
  /\ unrecognized = 1
  /\ exportsLeft < MaxExports
  /\ metricsConfigured

\* C20: authAttempts is always authSuccesses + authFailures; a
\* trackAuthAttempt call adds one to authAttempts and one to authSuccesses
\* when success is true, to authFailures when it is false, and changes
\* nothing else.
C20_AttemptsAreSuccessesPlusFailures ==
  /\ [](counters.authAttempts = counters.authSuccesses + counters.authFailures)
  /\ [][last'.op = "trackAuthAttempt"
          => /\ counters'.authAttempts = counters.authAttempts + 1
             /\ counters'.authSuccesses
                  = counters.authSuccesses + (IF last'.arg THEN 1 ELSE 0)
             /\ counters'.authFailures
                  = counters.authFailures + (IF last'.arg THEN 0 ELSE 1)
             /\ \A f \in DOMAIN counters \ {"authAttempts", "authSuccesses", "authFailures"} :
                  counters'[f] = counters[f]
             /\ UNCHANGED <<activeUsers, serviceLatencies, pizzaLatencies>>]_vars

\* trackAuthAttempt(true) and trackAuthAttempt(false) have been called.
C20_Witness ==
  /\ counters.authAttempts = 2
  /\ counters.authSuccesses = 1
  /\ counters.authFailures = 1
  /\ last.op = "trackAuthAttempt"

\* The value of the line of a payload that has the given name.
MetricValue(metricsString, name) ==
  metricsString[CHOOSE i \in DOMAIN metricsString : metricsString[i].name = name].value

\* C21: trackActiveUser is idempotent per identifier and does nothing for an
\* absent or empty one: a call with an identifier that is undefined, null or
\* the empty string leaves the set of active users as it was; a call with any
\* other identifier leaves the set holding that identifier once beside the
\* others, whether it was there before or not; and the active_users gauge of
\* an export is the number of members of the set, so that an identifier
\* counts 1 however often it was tracked.
C21_TrackActiveUserIdempotent ==
  [][/\ last'.op = "trackActiveUser" =>
          IF last'.arg \in {Undef, Null, Str("")}
          THEN activeUsers' = activeUsers
          ELSE /\ activeUsers' \ {last'.arg} = activeUsers \ {last'.arg}
               /\ last'.arg \in activeUsers'
               /\ Cardinality(activeUsers') =
                    Cardinality(activeUsers \ {last'.arg}) + 1
     /\ (last'.op = "export" /\ last'.calls = 1) =>
          MetricValue(exports'[Len(exports')].metricsString, "active_users") =
            Cardinality(activeUsers)]_vars

\* An export reported one active user, and the identifier it counted was
\* tracked once more since: the set still holds it once.
C21_Witness ==
  /\ last.op = "trackActiveUser"
  /\ last.arg = Num(1)
  /\ exports # <<>>
  /\ MetricValue(exports[1].metricsString, "active_users") = 1
  /\ activeUsers = {Num(1)}

\* C22 as claimed: the active_users gauge of an export is the number of
\* distinct identifiers tracked since the previous export built its payload;
\* an identifier tracked only before that does not count.
C22_GaugeCountsIdsSincePreviousExport ==
  [][(last'.op = "export" /\ last'.calls = 1) =>
        MetricValue(exports'[Len(exports')].metricsString, "active_users") =
          Cardinality(tracked.since)]_vars

\* C22, amended: the active_users gauge of an export is the number of
\* distinct identifiers tracked since the aggregator was created: the set is
\* never cleared, so an identifier tracked only before the previous export
\* still counts in the current one, whether the exports in between were
\* delivered or failed.
C22_GaugeCountsIdsSinceCreation ==
  [][(last'.op = "export" /\ last'.calls = 1) =>
        MetricValue(exports'[Len(exports')].metricsString, "active_users") =
          Cardinality(tracked.before \cup tracked.since)]_vars

\* One identifier was tracked, once, and two exports are pending: both
\* payloads count it, the second too, before which nothing was tracked.
C22_Witness ==
  /\ last.op = "export"
  /\ tracksLeft = MaxTracks - 1
  /\ Len(exports) = 2
  /\ tracked = [before |-> {Num(1)}, since |-> {}]
  /\ \A i \in 1..2 : MetricValue(exports[i].metricsString, "active_users") = 1

\* C23: trackPizzaPurchase updates exactly one outcome branch: on success
\* pizzasSold grows by the count and revenue by the given revenue while
\* pizzaCreationFails stays; on failure pizzaCreationFails grows by the count
\* while pizzasSold and revenue stay; no other counter changes.  (The amounts
\* here are whole, and a sum of whole amounts is exact.)
C23_PurchaseUpdatesOneBranch ==
  [][last'.op = "trackPizzaPurchase" =>
        counters' =
          IF last'.arg.success
          THEN [counters EXCEPT !.pizzasSold = @ + last'.arg.pizzaCount,
                                !.revenue = Whole(@[Digits] + last'.arg.revenue[Digits])]
          ELSE [counters EXCEPT !.pizzaCreationFails = @ + last'.arg.pizzaCount]]_vars

\* A failed purchase of two pizzas after a successful purchase of one: each
\* counter holds its own branch only.
C23_Witness ==
  /\ last.op = "trackPizzaPurchase"
  /\ ~last.arg.success
  /\ last.arg.pizzaCount = 2
  /\ counters.pizzaCreationFails = 2
  /\ counters.pizzasSold = 1
  /\ counters.revenue = Whole(3)

\* C24: a trackPizzaPurchase call with a latency provided, 0 included, on
\* success and on failure, appends exactly one sample of that value to the
\* pizza latency list; a call without a latency leaves the list as it was.
C24_ProvidedLatencyAppended ==
  [][last'.op = "trackPizzaPurchase" =>
        IF last'.arg.latency = Undef
        THEN pizzaLatencies' = pizzaLatencies
        ELSE /\ Len(pizzaLatencies') = Len(pizzaLatencies) + 1
             /\ SubSeq(pizzaLatencies', 1, Len(pizzaLatencies)) = pizzaLatencies
             /\ pizzaLatencies'[Len(pizzaLatencies')].ms = last'.arg.latency.n]_vars

(***************************************************************************)
(* Properties of the sanitizer.                                            *)
(***************************************************************************)
\* C25: sanitize is idempotent: for every value built from mappings,
\* sequences and primitives, sanitize returns normally and
\* sanitize(sanitize(v)) is sanitize(v).
C25_SanitizeIdempotent ==
  ~HasCycle(sanitizeInput) =>
     \A i \in DOMAIN sanitizeResults :
        /\ sanitizeResults[i] # Threw
        /\ i > 1 => sanitizeResults[i] = sanitizeResults[i - 1]

\* sanitize was applied twice to a value with a sensitive key inside an
\* object inside an array, which the first application changed.
C25_Witness ==
  /\ Len(sanitizeResults) = 2
  /\ sanitizeInput.t = "arr"
  /\ HasKeyIn(sanitizeInput, SensitiveKeys)
  /\ sanitizeResults[1] # sanitizeInput

RECURSIVE SameButMatching(_, _)
\* out is in, but for the values of the sensitive keys, which are the marker.
SameButMatching(in, out) ==
  CASE in.t = "obj" ->
         /\ out.t = "obj"
         /\ DOMAIN out.kv = DOMAIN in.kv
         /\ \A k \in DOMAIN in.kv :
               IF k \in SensitiveKeys THEN out.kv[k] = REDACTED
               ELSE SameButMatching(in.kv[k], out.kv[k])
    [] in.t = "arr" ->
         /\ out.t = "arr"
         /\ DOMAIN out.items = DOMAIN in.items
         /\ \A i \in DOMAIN in.items : SameButMatching(in.items[i], out.items[i])
    [] OTHER -> out = in

RECURSIVE SameButMatchingOrUndefined(_, _)
\* out is in, but for the values of the sensitive keys, which are the
\* marker, for the other properties holding undefined, which are gone, and
\* for the array elements holding undefined, which are null.
SameButMatchingOrUndefined(in, out) ==
  CASE in.t = "obj" ->
         /\ out.t = "obj"
         /\ DOMAIN out.kv = {k \in DOMAIN in.kv : in.kv[k] # Undef}
         /\ \A k \in DOMAIN out.kv :
               IF k \in SensitiveKeys THEN out.kv[k] = REDACTED
               ELSE SameButMatchingOrUndefined(in.kv[k], out.kv[k])
    [] in.t = "arr" ->
         /\ out.t = "arr"
         /\ DOMAIN out.items = DOMAIN in.items
         /\ \A i \in DOMAIN in.items :
               IF in.items[i] = Undef THEN out.items[i] = Null
               ELSE SameButMatchingOrUndefined(in.items[i], out.items[i])
    [] OTHER -> out = in

\* C26 as claimed: sanitize changes nothing but the values of matching keys:
\* the result has the keys of the input at every depth, a matching key holds
\* the marker, a key that does not match keeps its primitive value or its
\* array of primitives, and a mapping under it is treated the same way.
C26_OnlyMatchingKeysChange ==
  (~HasCycle(sanitizeInput) /\ sanitizeResults # <<>>) =>
     SameButMatching(sanitizeInput, sanitizeResults[1])

\* C26, amended: sanitize changes nothing but the values of matching keys
\* and what its deep copy cannot hold: a property whose value is undefined
\* is left out of the result (also under a matching key) and an array
\* element that is undefined becomes null.  Everything else is as claimed.
C26_OnlyMatchingKeysAndUndefinedChange ==
  (~HasCycle(sanitizeInput) /\ sanitizeResults # <<>>) =>
     SameButMatchingOrUndefined(sanitizeInput, sanitizeResults[1])

\* The example of the specification, sanitized.
C26_Witness ==
  /\ sanitizeInput = Example
  /\ sanitizeResults # <<>>
  /\ sanitizeResults[1] =
       Obj([password |-> REDACTED,
            nested |-> Obj([token |-> REDACTED, keep |-> Str("z")])])

(***************************************************************************)
(* Properties of the revenue.                                              *)
(***************************************************************************)
\* C27: revenue accumulated by successful purchases at 0.10 each is exported
\* without drift: after n of them, n up to one hundred, the revenue line of
\* an export reads n tenths to the fourth decimal (10.0000 after one
\* hundred), whatever the double that holds the sum has gathered below.
C27_RevenueExportedWithoutDrift ==
  \A i \in DOMAIN exports :
     MetricValue(exports[i].metricsString, "revenue") =
       1000 * MetricValue(exports[i].metricsString, "pizzas_sold")

\* One hundred purchases at 0.10: the sum held is not the double 10, and the
\* export reads 10.0000.
C27_Witness ==
  /\ counters.pizzasSold = 100
  /\ counters.revenue # Whole(10)
  /\ exports # <<>>
  /\ MetricValue(exports[1].metricsString, "pizzas_sold") = 100
  /\ MetricValue(exports[1].metricsString, "revenue") = 100000

(***************************************************************************)
(* Properties of the routes.                                               *)
(***************************************************************************)
\* The routes that ask for a signed-in user.
AuthRequired ==
  {"logout", "getUser", "updateUser", "getOrders", "createOrder", "addMenuItem",
   "getUserFranchises", "createFranchise", "createStore", "deleteStore"}

\* C28: every route that asks for a signed-in user answers 401 with the
\* message 'unauthorized' to a request with no Authorization header, an
\* empty one, one that is not 'Bearer <token>', or one with a token the
\* service never issued, after any sequence of registrations, logins and
\* logouts, and changes nothing.
C28_UnauthenticatedAnswered401 ==
  [][(/\ requestsLeft' # requestsLeft
      /\ response'.endpoint \in AuthRequired
      /\ \/ response'.authorization.kind \in {"absent", "empty", "malformed"}
         \/ response'.authorization = Bearer(0))
       => /\ response'.status = 401
          /\ response'.message = "unauthorized"
          /\ UNCHANGED <<users, sessions, franchises, menu>>]_vars

\* A user registered, signed in again and out, and then a store was asked
\* for with a token never issued: 401.
C28_Witness ==
  /\ response.endpoint = "createStore"
  /\ response.authorization = Bearer(0)
  /\ response.status = 401
  /\ Len(users) = 1
  /\ Len(sessions) = 2
  /\ \E t \in DOMAIN sessions : ~sessions[t].active

\* The changes that take a privilege.
PrivilegedChanges == {"updateUser", "addMenuItem", "createFranchise", "createStore",
                      "deleteStore"}

\* C29: a signed-in user with the diner role only is answered 403 when
\* updating another user's profile, adding a menu item, creating a
\* franchise, and creating or deleting a store (no franchise is theirs to
\* administer), whatever the body holds, and nothing is changed.
C29_DinerRefused403 ==
  [][(/\ requestsLeft' # requestsLeft
      /\ response'.endpoint \in PrivilegedChanges
      /\ response'.user \in DOMAIN users
      /\ users[response'.user].roles = {"diner"}
      /\ response'.endpoint = "updateUser" => response'.target # response'.user)
       => /\ response'.status = 403
          /\ UNCHANGED <<users, sessions, franchises, menu>>]_vars

\* A diner asked for a store of the franchise an administrator had
\* created, with a body that would not pass validation: 403.
C29_Witness ==
  /\ response.endpoint = "createStore"
  /\ response.body = "invalid"
  /\ response.status = 403
  /\ response.user \in DOMAIN users
  /\ users[response.user].roles = {"diner"}
  /\ response.target \in DOMAIN franchises

(***************************************************************************)
(* Order of the buffer.                                                    *)
(***************************************************************************)
\* C30: in every reachable state the records in the buffer are in the order
\* in which log() created them, also when flushes overlap and their
\* deliveries fail and requeue their batches.
C30_BufferInCreationOrder ==
  \A i, j \in DOMAIN logBuffer : i < j => logBuffer[i].id < logBuffer[j].id

(***************************************************************************)
(* The logger of a process that keeps running, with the destination        *)
(* configured at startup.  setInterval fires the periodic flush again and  *)
(* again (logger.js:9-12), which is weak fairness of TimerFlush; that      *)
(* deliveries succeed infinitely often is strong fairness of a delivery    *)
(* that ends with an ok response: a fetch can be pending, fail and be      *)
(* started again any number of times in between.                           *)
(***************************************************************************)
MaxLiveLogs == 3

UrlConfigs == {c \in LogConfigs : c.logging /\ c.url}

LiveInit ==
  /\ InitLogger(UrlConfigs, MaxLiveLogs)
  /\ InitMetrics({NoMetricsConfig}, 0, 0)
  /\ NoCalls

SettleOk == \E i \in DOMAIN inflight : Deliver(i, "ok")

LiveNext ==
  \/ LogCall
  \/ TimerFlush
  \/ Settle

LiveSpec ==
  /\ LiveInit
  /\ [][LiveNext]_vars
  /\ WF_vars(TimerFlush)
  /\ SF_vars(SettleOk)

(***************************************************************************)
(* Eventual delivery.                                                      *)
(***************************************************************************)
\* C31: with the destination configured at startup, the periodic flush
\* firing fairly and deliveries succeeding infinitely often, every record
\* that log() appended is eventually delivered, whether or not the buffer
\* ever reaches the threshold and however often its batch was requeued.
C31_EveryRecordEventuallyDelivered ==
  \A id \in 1..MaxLiveLogs :
    (nextId > id) ~> (\E j \in DOMAIN delivered : delivered[j].id = id)

\* A batch longer than the threshold was delivered: log() flushes as soon
\* as the buffer holds bufferSize records, so such a batch holds records
\* that a failed delivery had put back at the head of the buffer.
C31_Witness ==
  /\ last.op = "delivered"
  /\ Len(last.flight.logsToSend) > bufferSize
  /\ \A id \in 1..(nextId - 1) : \E j \in DOMAIN delivered : delivered[j].id = id

(***************************************************************************)
(* The interrupt signal.                                                   *)
(***************************************************************************)
\* The delivery attempts a step started: the flights it added.
StartedBy(before, after) == SubSeq(after, Len(before) + 1, Len(after))

\* C35: on SIGINT flush() runs twice, once in the SIGINT handler and once
\* in the 'exit' handler that process.exit() runs, and no record is in two
\* of the delivery attempts the two started: the first one took the whole
\* buffer, the second one finds it empty.
C35_InterruptFlushesTwiceNoRecordTwice ==
  [][(proc = "running" /\ last'.op = "sigint")
       => /\ last'.flushes = 2
          /\ Len(inflight') = Len(inflight) + last'.calls
          /\ \A i, j \in DOMAIN StartedBy(inflight, inflight') :
               i < j => Ids(StartedBy(inflight, inflight')[i].logsToSend)
                          \cap Ids(StartedBy(inflight, inflight')[j].logsToSend) = {}
          /\ Ids(Batches(StartedBy(inflight, inflight'))) \cap Ids(logBuffer') = {}]_vars

\* An interrupt found records in the buffer and a destination, and its two
\* flushes made one delivery attempt.
C35_Witness ==
  /\ last.op = "sigint"
  /\ last.flushes = 2
  /\ last.calls = 1
  /\ logBuffer = <<>>
  /\ inflight # <<>>

(***************************************************************************)
(* The logger with the destination configured, for as long as every        *)
(* delivery succeeds: the behaviours in which no failed delivery has put a *)
(* batch back into the buffer.                                             *)
(***************************************************************************)
DeliveringInit ==
  /\ InitLogger(UrlConfigs, MaxLogs)
  /\ InitMetrics({NoMetricsConfig}, 0, 0)
  /\ NoCalls

DeliveringNext ==
  \/ LogCall
  \/ TimerFlush
  \/ SettleOk
  \/ Exit
  \/ Sigint

DeliveringSpec == DeliveringInit /\ [][DeliveringNext]_vars

\* C36: with the destination configured and no batch requeued by a failed
\* delivery, the buffer holds fewer records than the threshold whenever a
\* log() call has returned.
C36_BufferBelowThresholdAfterLog ==
  (last.op = "log" /\ ~last.threw) => Len(logBuffer) < bufferSize

\* A log() call reached the threshold, flushed and returned with an empty
\* buffer, after an earlier batch had been delivered.
C36_Witness ==
  /\ last.op = "log"
  /\ ~last.threw
  /\ last.flushes = 1
  /\ last.calls = 1
  /\ logBuffer = <<>>
  /\ delivered # <<>>

(***************************************************************************)
(* Call sites whose details carry keys of the record itself.  log()        *)
(* spreads the sanitized details after level, type and message and before  *)
(* timestamp (logger.js:44-50); logException spreads the caller's context  *)
(* into the details it passes (logger.js:138-143).                         *)
(***************************************************************************)
MaxKeyedLogs == 2

KeyedDetails ==
  { EmptyObj,
    Obj([keep |-> Str("x")]),
    Obj([level |-> Str("x")]),
    Obj([type |-> Str("x")]),
    Obj([message |-> Str("x")]),
    Obj([timestamp |-> Str("x")]) }

LogKeyedCall ==
  /\ CanLog
  /\ \E d \in KeyedDetails : log(Str("info"), Str("http"), Str("m"), d)

LogExceptionKeyedCall ==
  /\ CanLog
  /\ \E context \in KeyedDetails : \E error \in Errors \ {Null} :
        logException(error, context)

KeyedInit ==
  /\ InitLogger(UrlConfigs, MaxKeyedLogs)
  /\ InitMetrics({NoMetricsConfig}, 0, 0)
  /\ NoCalls

KeyedNext ==
  \/ LogKeyedCall
  \/ LogExceptionKeyedCall
  \/ TimerFlush
  \/ Settle

KeyedSpec == KeyedInit /\ [][KeyedNext]_vars

\* The record that the log() call that just returned appended.
Appended == Everywhere[CHOOSE i \in DOMAIN Everywhere : Everywhere[i].id = nextId - 1]

\* C37: the record log(level, type, message, details) appended carries the
\* level, type and message of the call and the timestamp log() set,
\* whatever keys details has, and so its stream labels are the level and
\* type of the call.
C37_RecordCarriesArguments ==
  (last.op = "log" /\ ~last.threw)
    => /\ Appended.entry.kv["level"] = last.arg.level
       /\ Appended.entry.kv["type"] = last.arg.type
       /\ Appended.entry.kv["message"] = last.arg.message
       /\ Appended.entry.kv["timestamp"] = Num(Appended.id)
       /\ labelsOf(Appended).level = last.arg.level
       /\ labelsOf(Appended).type = last.arg.type

(***************************************************************************)
(* sanitize and the memory of its caller: a caller holds a value and hands *)
(* it to sanitize once.                                                    *)
(***************************************************************************)
SanitizeInMemory ==
  /\ heap.returned = NotReturned
  /\ \E r \in {sanitizeInMemory(heap.cells, heap.data)} :
        heap' = [heap EXCEPT !.cells = r.cells, !.returned = r.returned]
  /\ last' = Last("sanitize", 0, 0, FALSE)
  /\ UNCHANGED <<logVars, metricVars, sanitizeInput, sanitizeResults, routeVars, requests>>

MemoryInit ==
  /\ InitLogger({[logging |-> FALSE, url |-> FALSE, creds |-> FALSE]}, 0)
  /\ InitMetrics({NoMetricsConfig}, 0, 0)
  /\ InitSanitizer(SanitizeInputs)
  /\ InitRoutes({<< >>}, 0)

MemoryNext == SanitizeInMemory

MemorySpec == MemoryInit /\ [][MemoryNext]_vars

(***************************************************************************)
(* The argument of sanitize.                                               *)
(***************************************************************************)
\* C34: sanitize does not modify its argument: once sanitize(v) has
\* returned (or raised), the caller's v and every mapping and array nested
\* in it hold the keys and values they held before the call.
C34_ArgumentUntouched ==
  heap.returned # NotReturned =>
     /\ heap.data = SlotAt(<<"data">>, sanitizeInput)
     /\ \A a \in Addresses(<<"data">>, sanitizeInput) :
          /\ a \in DOMAIN heap.cells
          /\ heap.cells[a] = Alloc("data", sanitizeInput)[a]
     /\ Deref(heap.cells, heap.data) = sanitizeInput

\* sanitize returned a redacted copy of a payload with a sensitive value
\* in a nested mapping, and the payload still carries that value.
C34_Witness ==
  /\ sanitizeInput = Example
  /\ heap.returned = Ref(<<"sanitized">>)
  /\ Deref(heap.cells, heap.returned).kv["nested"].kv["token"] = REDACTED
  /\ Deref(heap.cells, heap.data).kv["nested"].kv["token"] = Str("y")
  /\ Deref(heap.cells, heap.data).kv["password"] = Str("x")

(***************************************************************************)
(* A request/response cycle through the two middlewares: requestTracker    *)
(* (metrics.js:103-133) and httpLogger (logger.js:67-104) run when the     *)
(* request enters; the route handler, which may await in between, writes   *)
(* the response with res.json or in another way (res.send of a text,       *)
(* res.end); the response's 'finish' event comes after that.  Cycles of    *)
(* different requests interleave.                                          *)
(***************************************************************************)
MaxCycles == 2

\* The characters of a request path.
PathChars(path) ==
  CASE path = "/api/auth" -> <<"/", "a", "p", "i", "/", "a", "u", "t", "h">>
    [] path = "/api/order" -> <<"/", "a", "p", "i", "/", "o", "r", "d", "e", "r">>
    [] path = "/api/authors" ->
         <<"/", "a", "p", "i", "/", "a", "u", "t", "h", "o", "r", "s">>

\* The authentication endpoint, another endpoint, and a path that is no
\* endpoint of the service.
AuthEndpoint == "/api/auth"
Paths == {AuthEndpoint, "/api/order", "/api/authors"}
CycleMethods == {"GET", "POST", "PUT", "DELETE"}
\* res.statusCode when the response is written.
Statuses == {200, 401}
\* req.user when requestTracker runs: not set, or a user with an id.
CycleUsers == {Undef, Obj([id |-> Num(1)])}

\* A request that entered, and what its cycle has added so far (history).
Request(method, path, total) ==
  [method |-> method, path |-> path, written |-> "no", status |-> 0,
   finished |-> FALSE, total |-> total, attempts |-> 0, successes |-> 0,
   failures |-> 0, samples |-> 0, logs |-> 0]

\* metrics.js:103-109 and 131 (and logger.js:67-85, 103, which change no
\* state of the model): the request enters.
RequestTracker ==
  /\ proc = "running"
  /\ Len(requests) < MaxCycles
  /\ \E method \in CycleMethods, path \in Paths, user \in CycleUsers :
       /\ counters' = countRequest(counters, method)
       /\ unrecognized' = unrecognized + (IF method \in Recognized THEN 0 ELSE 1)
       /\ activeUsers' =
            IF ~Falsy(user) /\ ~Falsy(Member(user, "id"))   \* req.user && req.user.id
            THEN addActiveUser(activeUsers, Member(user, "id"))
            ELSE activeUsers
       /\ tracked' = [tracked EXCEPT !.since = @ \cup (activeUsers' \ activeUsers)]
       /\ requests' = Append(requests,
                             Request(method, path,
                                     counters'.totalRequests - counters.totalRequests))
  /\ last' = Last("requestTracker", 0, 0, FALSE)
  /\ UNCHANGED <<logVars, sanitizeVars, routeVars, metricsConfig, serviceLatencies,
                 pizzaLatencies, exports, reads, nextSample, tracksLeft, exportsLeft,
                 exportFailures>>

\* metrics.js:113  req.path.includes('/api/auth')
pathIncludesAuth(path) == includes(PathChars(path), PathChars("/api/auth"))

\* metrics.js:111-128: the handler calls res.json, that is the wrapper that
\* requestTracker installed (httpLogger's wrapper notes the body).
ResJson ==
  /\ proc = "running"
  /\ \E i \in DOMAIN requests, status \in Statuses, latency \in {7} :
       /\ requests[i].written = "no"
       /\ counters' =
            IF pathIncludesAuth(requests[i].path)
                 /\ (requests[i].method = "POST" \/ requests[i].method = "PUT")
            THEN countAuthAttempt(counters, status = 200)
            ELSE counters
       /\ serviceLatencies' = Append(serviceLatencies, Sample(latency))
       /\ nextSample' = nextSample + 1
       /\ requests' =
            [requests EXCEPT ![i] =
               [@ EXCEPT !.written = "json", !.status = status,
                         !.attempts = @ + counters'.authAttempts - counters.authAttempts,
                         !.successes = @ + counters'.authSuccesses - counters.authSuccesses,
                         !.failures = @ + counters'.authFailures - counters.authFailures,
                         !.samples = @ + Len(serviceLatencies') - Len(serviceLatencies)]]
  /\ last' = Last("res.json", 0, 0, FALSE)
  /\ UNCHANGED <<logVars, sanitizeVars, routeVars, metricsConfig, activeUsers,
                 pizzaLatencies, exports, reads, tracksLeft, exportsLeft,
                 exportFailures, unrecognized, tracked>>

\* The handler writes the response without res.json: res.send of a text
\* or res.end.  requestTracker wrapped neither (httpLogger's res.send
\* wrapper, logger.js:80-85, notes the body).
ResSend ==
  /\ proc = "running"
  /\ \E i \in DOMAIN requests, status \in Statuses :
       /\ requests[i].written = "no"
       /\ requests' = [requests EXCEPT ![i] = [@ EXCEPT !.written = "send",
                                                        !.status = status]]
  /\ last' = Last("res.send", 0, 0, FALSE)
  /\ UNCHANGED <<logVars, metricVars, sanitizeVars, routeVars>>

\* logger.js:88-101: the 'finish' event of a response that was written.
ResFinish ==
  /\ CanLog
  /\ \E i \in DOMAIN requests :
       /\ requests[i].written # "no"
       /\ ~requests[i].finished
       /\ logThen(Str("info"), Str("http"), Str("HTTP Request"),
                  httpDetails(Str(requests[i].method), Undef, Undef, Undef),
                  /\ requests' = [requests EXCEPT ![i] =
                                    [@ EXCEPT !.finished = TRUE,
                                              !.logs = @ + nextId' - nextId]]
                  /\ UNCHANGED <<metricVars, sanitizeVars, routeVars>>)

CycleInit ==
  /\ InitLogger({c \in LogConfigs : c.url = c.creds /\ c.logging = c.url}, MaxCycles)
  /\ InitMetrics({NoMetricsConfig}, 0, 0)
  /\ NoCalls

CycleNext ==
  \/ RequestTracker
  \/ ResJson
  \/ ResSend
  \/ ResFinish
  \/ TimerFlush

CycleSpec == CycleInit /\ [][CycleNext]_vars

(***************************************************************************)
(* The instrumentation of a request/response cycle.                        *)
(***************************************************************************)
\* C32: a cycle applies trackAuthAttempt exactly once when its request is a
\* POST or a PUT of the authentication endpoint, with success taken from
\* the status of the response, and not at all otherwise: then it leaves
\* authAttempts, authSuccesses and authFailures as they were.
C32_AuthAttemptOncePerAuthRequest ==
  \A i \in DOMAIN requests :
    requests[i].finished =>
      IF requests[i].path = AuthEndpoint /\ requests[i].method \in {"POST", "PUT"}
      THEN /\ requests[i].attempts = 1
           /\ requests[i].successes = (IF requests[i].status = 200 THEN 1 ELSE 0)
           /\ requests[i].failures = (IF requests[i].status = 200 THEN 0 ELSE 1)
      ELSE /\ requests[i].attempts = 0
           /\ requests[i].successes = 0
           /\ requests[i].failures = 0

\* C33: every cycle, however its response is written and whatever its
\* status, adds 1 to totalRequests, one sample to the service latency list
\* and one 'http' record to the log.
C33_CycleCountedTimedLoggedOnce ==
  \A i \in DOMAIN requests :
    requests[i].finished =>
      /\ requests[i].total = 1
      /\ requests[i].samples = 1
      /\ requests[i].logs = 1

============================================================================
